---- MODULE Spec2Model ----
(***************************************************************************)
(* A model of the vislib_robo motion-control library.                      *)
(*                                                                         *)
(* Part 1: TrapezoidalMotionProfile<T, TimeType>                           *)
(* (src/include/trapezoidalMotion.hpp).                                    *)
(*                                                                         *)
(* The numeric type T (and TimeType) is modelled by exact rationals        *)
(* <<numerator, denominator>> in lowest terms with a positive denominator. *)
(* Floating-point rounding is therefore not modelled: an equality that     *)
(* holds here holds in exact arithmetic.  sqrt is modelled only on         *)
(* arguments whose root is rational; StartMotion draws its inputs so that  *)
(* every root the code takes is of that kind.                              *)
(***************************************************************************)
EXTENDS Integers, Sequences, FiniteSets, TLC

(***************************************************************************)
(* Bounds of the model.                                                    *)
(***************************************************************************)
\* positions handed to startMotion range over 0..MaxPos
MaxPos == 4
\* the time points handed to calculateMotion include -1..MaxTime
MaxTime == 5
\* start times handed to startMotion range over 0..MaxStart
MaxStart == 1
\* constructor arguments range over -1..MaxAcc and -1..MaxLimit
MaxAcc == 2
MaxLimit == 2

(***************************************************************************)
(* Exact rational arithmetic: the operators of T.                          *)
(***************************************************************************)
RECURSIVE GCD(_, _)
GCD(a, b) == IF b = 0 THEN a ELSE GCD(b, a % b)

Abs(i) == IF i < 0 THEN -i ELSE i

\* n/d in lowest terms, d > 0 after normalisation (d # 0 required)
Q(n, d) ==
    LET g == GCD(Abs(n), Abs(d))
        sg == IF d < 0 THEN -1 ELSE 1
    IN  <<(sg * n) \div g, (sg * d) \div g>>

Int2Q(i) == <<i, 1>>
Zero == Int2Q(0)
Two == Int2Q(2)

Add(a, b) == Q(a[1] * b[2] + b[1] * a[2], a[2] * b[2])
Neg(a) == <<-a[1], a[2]>>
Sub(a, b) == Add(a, Neg(b))
Mul(a, b) == Q(a[1] * b[1], a[2] * b[2])
\* division; the code never divides by zero on the paths modelled
Div(a, b) == Q(a[1] * b[2], a[2] * b[1])
Lt(a, b) == a[1] * b[2] < b[1] * a[2]
Le(a, b) == a[1] * b[2] <= b[1] * a[2]

\* core::absF, core::minF, core::signF
absF(a) == IF a[1] < 0 THEN Neg(a) ELSE a
minF(a, b) == IF Lt(b, a) THEN b ELSE a
signF(a) == IF a[1] < 0 THEN -1 ELSE IF a[1] > 0 THEN 1 ELSE 0

IsSquare(n) == \E r \in 0..n : r * r = n
IntRoot(n) == CHOOSE r \in 0..n : r * r = n
\* sqrt is exactly representable on q
HasRoot(q) == q[1] >= 0 /\ IsSquare(q[1]) /\ IsSquare(q[2])
\* sqrt(q) for a q with a rational root
sqrt(q) == <<IntRoot(q[1]), IntRoot(q[2])>>

(***************************************************************************)
(* The object: TrapezoidalMotionProfile and TMPResult.                     *)
(***************************************************************************)
\* TMPResult<T>{}: the value-initialised result
DefaultResult == [position |-> Zero, speed |-> Zero, acceleration |-> Zero]

\* TrapezoidalMotionProfile(): every field at its default member initialiser
DefaultProfile ==
    [acceleration |-> Zero, speedLimit |-> Zero,
     t1 |-> Zero, t2 |-> Zero, t3 |-> Zero,
     x1 |-> Zero, x2 |-> Zero,
     startTime |-> Zero,
     x0 |-> Zero, xt |-> Zero,
     s |-> 1,
     isConfiguredFlag |-> FALSE]

\* TrapezoidalMotionProfile(acceleration, speedLimit)
NewProfile(a, v) == [DefaultProfile EXCEPT !.acceleration = a, !.speedLimit = v]

\* a reset that keeps the physical constants (differs from endMotion)
endMotion_KeepConstants(p) == NewProfile(p.acceleration, p.speedLimit)

\* endMotion(): *this = TrapezoidalMotionProfile()
endMotion(p) == DefaultProfile

\* a check that tests the constants before the positions (differs from validCheck)
validCheck_ConstantsFirst(p) ==
    IF Le(p.acceleration, Zero)
    THEN [err |-> "invalidConfiguration", p |-> endMotion(p)]
    ELSE IF Le(p.speedLimit, Zero)
    THEN [err |-> "invalidConfiguration", p |-> endMotion(p)]
    ELSE IF p.x0 = p.xt
    THEN [err |-> "reachedTheTarget", p |-> endMotion(p)]
    ELSE [err |-> "success", p |-> p]

\* a check that reports the error without calling endMotion() (differs from validCheck)
validCheck_NoClear(p) ==
    IF p.x0 = p.xt
    THEN [err |-> "reachedTheTarget", p |-> p]
    ELSE IF Le(p.acceleration, Zero)
    THEN [err |-> "invalidConfiguration", p |-> p]
    ELSE IF Le(p.speedLimit, Zero)
    THEN [err |-> "invalidConfiguration", p |-> p]
    ELSE [err |-> "success", p |-> p]

\* validCheck(): the error code returned and the object afterwards
validCheck(p) ==
    IF p.x0 = p.xt
    THEN [err |-> "reachedTheTarget", p |-> endMotion(p)]
    ELSE IF Le(p.acceleration, Zero)
    THEN [err |-> "invalidConfiguration", p |-> endMotion(p)]
    ELSE IF Le(p.speedLimit, Zero)
    THEN [err |-> "invalidConfiguration", p |-> endMotion(p)]
    ELSE [err |-> "success", p |-> p]

\* isConfiguredAsErr(): only the message of validCheck's error is changed
isConfiguredAsErr(p) ==
    IF p.isConfiguredFlag THEN [err |-> "success", p |-> p] ELSE validCheck(p)

\* a limit that is not clamped to the length of the move (differs from effectiveLimit)
effectiveLimit_NoClamp(p) == p.speedLimit

\* core::minF(speedLimit, sqrt(core::absF(acceleration * (xt - x0))))
effectiveLimit(p) ==
    minF(p.speedLimit, sqrt(absF(Mul(p.acceleration, Sub(p.xt, p.x0)))))

\* the geometry startMotion computes once isConfiguredAsErr() succeeded
planMotion(p, st) ==
    LET s == signF(Sub(p.xt, p.x0))
        sq == Int2Q(s)
        speedLimit == Mul(sq, effectiveLimit(p))
        t1 == Div(absF(speedLimit), p.acceleration)
        x1 == Add(p.x0, Div(Mul(Mul(Mul(sq, p.acceleration), t1), t1), Two))
        t2 == Add(t1, Div(Sub(Add(p.xt, p.x0), Mul(Two, x1)), speedLimit))
        x2 == Add(x1, Mul(p.acceleration, Sub(t2, t1)))
        t3 == Add(t1, t2)
    IN  [p EXCEPT !.s = s, !.speedLimit = speedLimit,
                  !.t1 = t1, !.x1 = x1, !.t2 = t2, !.x2 = x2, !.t3 = t3,
                  !.startTime = st, !.isConfiguredFlag = TRUE]

\* startMotion(startPosition, targetPosition, startTime)
startMotion(p, sp, tp, st) ==
    LET q == [p EXCEPT !.isConfiguredFlag = FALSE, !.x0 = sp, !.xt = tp]
        c == isConfiguredAsErr(q)
    IN  IF c.err # "success" THEN c
        ELSE [err |-> "success", p |-> planMotion(c.p, st)]

\* a phase selection that rests at the target once t3 has passed (differs from phaseResult)
phaseResult_ClampToRest(p, t) ==
    LET sq == Int2Q(p.s)
    IN  IF Le(Zero, t) /\ Le(t, p.t1)
        THEN [position |-> Add(p.x0, Div(Mul(Mul(Mul(sq, p.acceleration), t), t), Two)),
              speed |-> Mul(p.acceleration, t),
              acceleration |-> p.acceleration]
        ELSE IF Lt(p.t1, t) /\ Lt(t, p.t2)
        THEN [position |-> Add(p.x1, Mul(p.speedLimit, Sub(t, p.t1))),
              speed |-> p.speedLimit,
              acceleration |-> Zero]
        ELSE IF Le(p.t2, t) /\ Le(t, p.t3)
        THEN LET dt == Sub(t, p.t2)
             IN  [position |-> Sub(Add(p.x2, Mul(p.speedLimit, dt)),
                                   Div(Mul(Mul(Mul(sq, p.acceleration), dt), dt), Two)),
                  speed |-> Sub(p.speedLimit, Mul(p.acceleration, dt)),
                  acceleration |-> Neg(p.acceleration)]
        ELSE [position |-> p.xt, speed |-> Zero, acceleration |-> Zero]

\* the phase selection of calculateMotion for elapsed time t >= 0
phaseResult(p, t) ==
    LET sq == Int2Q(p.s)
    IN  IF Le(Zero, t) /\ Le(t, p.t1)
        THEN [position |-> Add(p.x0, Div(Mul(Mul(Mul(sq, p.acceleration), t), t), Two)),
              speed |-> Mul(p.acceleration, t),
              acceleration |-> p.acceleration]
        ELSE IF Lt(p.t1, t) /\ Lt(t, p.t2)
        THEN [position |-> Add(p.x1, Mul(p.speedLimit, Sub(t, p.t1))),
              speed |-> p.speedLimit,
              acceleration |-> Zero]
        ELSE IF Le(p.t2, t) /\ Le(t, p.t3)
        THEN LET dt == Sub(t, p.t2)
             IN  [position |-> Sub(Add(p.x2, Mul(p.speedLimit, dt)),
                                   Div(Mul(Mul(Mul(sq, p.acceleration), dt), dt), Two)),
                  speed |-> Sub(p.speedLimit, Mul(p.acceleration, dt)),
                  acceleration |-> Neg(p.acceleration)]
        ELSE DefaultResult

\* a query that rejects an object whose flag is not set (differs from calculateMotion)
calculateMotion_FlagFirst(p, timePoint) ==
    IF ~p.isConfiguredFlag
    THEN [err |-> "invalidConfiguration", result |-> DefaultResult, p |-> p]
    ELSE LET t == Sub(timePoint, p.startTime)
         IN  IF Lt(t, Zero)
             THEN [err |-> "invalidArgument", result |-> DefaultResult, p |-> p]
             ELSE [err |-> "success", result |-> phaseResult(p, t), p |-> p]

\* calculateMotion(timePoint): error code, result and the object afterwards
calculateMotion(p, timePoint) ==
    LET c == validCheck(p)
        t == Sub(timePoint, c.p.startTime)
    IN  IF c.err # "success"
        THEN [err |-> c.err, result |-> DefaultResult, p |-> c.p]
        ELSE IF Lt(t, Zero)
        THEN [err |-> "invalidArgument", result |-> DefaultResult, p |-> c.p]
        ELSE [err |-> "success", result |-> phaseResult(c.p, t), p |-> c.p]

(***************************************************************************)
(* The state machine of one profile object and its caller.                 *)
(***************************************************************************)
VARIABLES
    tmp,       \* the TrapezoidalMotionProfile object
    pre,       \* the object as it was when the last call was made
    ret,       \* the last call: operation, arguments, error code, result
    ctor,      \* the arguments the object was constructed with
    started,   \* startMotion was called since construction
    startOk,   \* the last startMotion succeeded and no endMotion() followed
    ended      \* endMotion() was called since construction

\* the state of the orientation estimator (Part 2)
VARIABLES
    gyro,      \* the UltimateGyroCalculator object: the three axis configs
    gpre,      \* the object as it was when the last call was made
    gret,      \* the last call: operation, arguments, sensor outcomes, result
    gsteps     \* the number of calls made so far

VARIABLES
    par,       \* updateParallelAxisesForMotors: its arguments and what it returned
    platform,  \* the Platform object: its controllers
    plret      \* the last call on the platform: arguments, controller calls, result

\* the drive train under call (Parts 4 and 5)
VARIABLES
    drive,     \* the object called: a controller, a calculator's arguments, a platform
    dret       \* the last call on it: operation, arguments, what it returned

tmpVars == <<tmp, pre, ret, ctor, started, startOk, ended>>
gyroVars == <<gyro, gpre, gret, gsteps>>
platVars == <<par, platform, plret>>
driveVars == <<drive, dret>>

vars == <<tmp, pre, ret, ctor, started, startOk, ended, gyro, gpre, gret, gsteps,
          par, platform, plret, drive, dret>>

Accelerations == {Int2Q(i) : i \in -1..MaxAcc}
SpeedLimits == {Int2Q(i) : i \in -1..MaxLimit}
Positions == {Int2Q(i) : i \in 0..MaxPos}
StartTimes == {Int2Q(i) : i \in 0..MaxStart}

\* the time points a caller asks about: a grid and the phase boundaries
QueryTimes(p) ==
    {Int2Q(i) : i \in -1..MaxTime}
        \cup {Add(p.startTime, p.t1), Add(p.startTime, p.t2), Add(p.startTime, p.t3)}

\* the root startMotion takes on these arguments, if it takes one, is rational
RootRepresentable(p, sp, tp) ==
    (sp # tp /\ Lt(Zero, p.acceleration) /\ Lt(Zero, p.speedLimit))
        => HasRoot(absF(Mul(p.acceleration, Sub(tp, sp))))

Call(op, x0, xt, t, code, result) ==
    [op |-> op, x0 |-> x0, xt |-> xt, t |-> t, code |-> code, result |-> result]

InitTMP ==
    \E a \in Accelerations, v \in SpeedLimits :
        /\ tmp = NewProfile(a, v)
        /\ pre = NewProfile(a, v)
        /\ ret = Call("construct", Zero, Zero, Zero, "success", DefaultResult)
        /\ ctor = <<a, v>>
        /\ started = FALSE
        /\ startOk = FALSE
        /\ ended = FALSE
        /\ gyro = <<>> /\ gpre = <<>> /\ gret = <<>> /\ gsteps = 0
        /\ par = <<>> /\ platform = <<>> /\ plret = <<>>
        /\ drive = <<>> /\ dret = <<>>

\* the object is constructed again
Construct ==
    \E a \in Accelerations, v \in SpeedLimits :
        /\ tmp' = NewProfile(a, v)
        /\ pre' = NewProfile(a, v)
        /\ ret' = Call("construct", Zero, Zero, Zero, "success", DefaultResult)
        /\ ctor' = <<a, v>>
        /\ started' = FALSE
        /\ startOk' = FALSE
        /\ ended' = FALSE

StartMotion ==
    \E sp \in Positions, tp \in Positions, st \in StartTimes :
        /\ RootRepresentable(tmp, sp, tp)
        /\ LET r == startMotion(tmp, sp, tp, st)
           IN  /\ tmp' = r.p
               /\ ret' = Call("startMotion", sp, tp, st, r.err, DefaultResult)
               /\ startOk' = (r.err = "success")
        /\ pre' = tmp
        /\ started' = TRUE
        /\ UNCHANGED <<ctor, ended>>

CalculateMotion ==
    \E t \in QueryTimes(tmp) :
        /\ LET r == calculateMotion(tmp, t)
           IN  /\ tmp' = r.p
               /\ ret' = Call("calculateMotion", Zero, Zero, t, r.err, r.result)
        /\ pre' = tmp
        /\ UNCHANGED <<ctor, started, startOk, ended>>

IsConfiguredAsErr ==
    /\ LET r == isConfiguredAsErr(tmp)
       IN  /\ tmp' = r.p
           /\ ret' = Call("isConfiguredAsErr", Zero, Zero, Zero, r.err, DefaultResult)
    /\ pre' = tmp
    /\ UNCHANGED <<ctor, started, startOk, ended>>

EndMotion ==
    /\ tmp' = endMotion(tmp)
    /\ ret' = Call("endMotion", Zero, Zero, Zero, "success", DefaultResult)
    /\ pre' = tmp
    /\ startOk' = FALSE
    /\ ended' = TRUE
    /\ UNCHANGED <<ctor, started>>

\* the other components do nothing while the profile is exercised
NextTMP ==
    \/ Construct /\ UNCHANGED <<gyroVars, platVars, driveVars>>
    \/ StartMotion /\ UNCHANGED <<gyroVars, platVars, driveVars>>
    \/ CalculateMotion /\ UNCHANGED <<gyroVars, platVars, driveVars>>
    \/ IsConfiguredAsErr /\ UNCHANGED <<gyroVars, platVars, driveVars>>
    \/ EndMotion /\ UNCHANGED <<gyroVars, platVars, driveVars>>

SpecTMP == InitTMP /\ [][NextTMP]_vars

(***************************************************************************)
(* Properties of the motion profile.                                       *)
(***************************************************************************)
\* the last call was calculateMotion
IsCalc == ret.op = "calculateMotion"
\* the last call was startMotion
IsStart == ret.op = "startMotion"
\* the time elapsed since the start of the motion at the last query
Elapsed == Sub(ret.t, pre.startTime)
\* the object was constructed with positive constants
CtorPositive == Lt(Zero, ctor[1]) /\ Lt(Zero, ctor[2])

\* C1: a query at elapsed time t1 returns the position and speed the cruise
\* formulas give at t1 (x1 and the speed limit), and a query at elapsed time
\* t2 returns what the cruise formulas give at t2 (x1 + speedLimit*(t2-t1)
\* and the speed limit).
C1_Continuous ==
    (IsCalc /\ pre.isConfiguredFlag) =>
        /\ Elapsed = pre.t1 =>
              /\ ret.code = "success"
              /\ ret.result.position = pre.x1
              /\ ret.result.speed = pre.speedLimit
        /\ Elapsed = pre.t2 =>
              /\ ret.code = "success"
              /\ ret.result.position =
                     Add(pre.x1, Mul(pre.speedLimit, Sub(pre.t2, pre.t1)))
              /\ ret.result.speed = pre.speedLimit

\* C2: on a configured profile a query with 0 <= t - startTime <= t3 returns
\* success and leaves the profile configured, whatever the direction.
C2_QuerySucceeds ==
    (IsCalc /\ pre.isConfiguredFlag /\ Le(Zero, Elapsed) /\ Le(Elapsed, pre.t3)) =>
        /\ ret.code = "success"
        /\ tmp.isConfiguredFlag

\* C3: isConfigured() implies that the last startMotion succeeded with no
\* endMotion after it, and that x0 # xt, acceleration > 0 and speedLimit > 0.
C3_ConfiguredState ==
    tmp.isConfiguredFlag =>
        /\ startOk
        /\ tmp.x0 # tmp.xt
        /\ Lt(Zero, tmp.acceleration)
        /\ Lt(Zero, tmp.speedLimit)

\* the length of the move of the last startMotion
MoveLength == absF(Sub(ret.xt, ret.x0))
\* speedLimit^2 / acceleration for the constants startMotion was called with
CruiseThreshold == Div(Mul(pre.speedLimit, pre.speedLimit), pre.acceleration)

\* C4: after a successful startMotion the magnitude of the effective speed
\* limit is sqrt(acceleration*|xt-x0|) and t1 = t2 when
\* |xt-x0| < speedLimit^2/acceleration, and is the speed limit the profile
\* held when startMotion was called, with t2 >= t1, otherwise.
C4_EffectiveLimit ==
    (IsStart /\ ret.code = "success") =>
        /\ Lt(MoveLength, CruiseThreshold) =>
              /\ absF(tmp.speedLimit) = sqrt(Mul(pre.acceleration, MoveLength))
              /\ tmp.t1 = tmp.t2
        /\ Le(CruiseThreshold, MoveLength) =>
              /\ absF(tmp.speedLimit) = pre.speedLimit
              /\ Le(tmp.t1, tmp.t2)

\* C4 witness: a successful start of a move too short to reach the limit
C4_Witness ==
    /\ IsStart /\ ret.code = "success"
    /\ Lt(MoveLength, CruiseThreshold)
    /\ tmp.t1 = tmp.t2

\* C5: startMotion(x, x, t0) returns reachedTheTarget and leaves the profile
\* unconfigured, whatever acceleration and speedLimit are.
C5_SamePosition ==
    (IsStart /\ ret.x0 = ret.xt) =>
        /\ ret.code = "reachedTheTarget"
        /\ ~tmp.isConfiguredFlag

\* C5 witness: startMotion(x, x) on a profile with a non-positive acceleration
C5_Witness ==
    /\ IsStart /\ ret.x0 = ret.xt
    /\ Le(pre.acceleration, Zero)
    /\ ret.code = "reachedTheTarget"

\* C6: startMotion with x0 # xt on a profile with acceleration <= 0 or
\* speedLimit <= 0 returns invalidConfiguration and leaves every field at
\* its default-constructed value.
C6_InvalidConstants ==
    (/\ IsStart /\ ret.x0 # ret.xt
     /\ (Le(pre.acceleration, Zero) \/ Le(pre.speedLimit, Zero))) =>
        /\ ret.code = "invalidConfiguration"
        /\ tmp = DefaultProfile
        /\ ~tmp.isConfiguredFlag

\* C6 witness: a rejected start on a profile with a positive acceleration
\* and a non-positive speed limit
C6_Witness ==
    /\ IsStart /\ ret.x0 # ret.xt
    /\ Lt(Zero, pre.acceleration) /\ Le(pre.speedLimit, Zero)
    /\ ret.code = "invalidConfiguration"
    /\ tmp = DefaultProfile

\* C7 as stated: on a configured profile every query with
\* t - startTime >= t3 returns success with position, speed and
\* acceleration all zero.
C7_AtOrPastEnd ==
    (IsCalc /\ pre.isConfiguredFlag /\ Le(pre.t3, Elapsed)) =>
        /\ ret.code = "success"
        /\ ret.result = DefaultResult

\* C7 amended: on a configured profile with xt > x0 a query with
\* t - startTime > t3 returns success with position, speed and acceleration
\* all zero, and a query at exactly t3 returns the deceleration-phase
\* result; on a configured profile with xt < x0 the query returns
\* invalidConfiguration.
C7_PastEnd ==
    (IsCalc /\ pre.isConfiguredFlag /\ Le(pre.t3, Elapsed)) =>
        IF Lt(pre.x0, pre.xt)
        THEN /\ ret.code = "success"
             /\ Lt(pre.t3, Elapsed) => ret.result = DefaultResult
             /\ Elapsed = pre.t3 =>
                   /\ ret.result.acceleration = Neg(pre.acceleration)
                   /\ ret.result.speed =
                          Sub(pre.speedLimit,
                              Mul(pre.acceleration, Sub(pre.t3, pre.t2)))
                   /\ ret.result.position =
                          Sub(Add(pre.x2, Mul(pre.speedLimit, Sub(pre.t3, pre.t2))),
                              Div(Mul(Mul(pre.acceleration, Sub(pre.t3, pre.t2)),
                                      Sub(pre.t3, pre.t2)), Two))
        ELSE ret.code = "invalidConfiguration"

\* C7 witness: a successful query past t3 on a configured profile
C7_Witness ==
    /\ IsCalc /\ pre.isConfiguredFlag /\ ret.code = "success"
    /\ Lt(pre.t3, Elapsed)
    /\ ret.result = DefaultResult
    /\ pre.xt # Zero

\* C8: isConfiguredAsErr() leaves every field of the profile unchanged.
C8_ProbeReadOnly ==
    ret.op = "isConfiguredAsErr" => tmp = pre

\* C9: after endMotion() the profile is unconfigured with acceleration and
\* speedLimit zero, and every later startMotion fails: reachedTheTarget when
\* x0 = xt, invalidConfiguration otherwise.
C9_AfterEnd ==
    ended =>
        /\ ~tmp.isConfiguredFlag
        /\ tmp.acceleration = Zero
        /\ tmp.speedLimit = Zero
        /\ IsStart =>
              ret.code = (IF ret.x0 = ret.xt THEN "reachedTheTarget"
                                             ELSE "invalidConfiguration")

\* C9 witness: a startMotion with x0 # xt rejected after endMotion() on an
\* object constructed with positive constants
C9_Witness ==
    /\ ended /\ CtorPositive
    /\ IsStart /\ ret.x0 # ret.xt
    /\ ret.code = "invalidConfiguration"

\* C10 as stated: calculateMotion on a profile constructed with positive
\* constants on which startMotion was never called fails with
\* invalidConfiguration.
C10_NeverStartedInvalid ==
    (IsCalc /\ ~started /\ CtorPositive) => ret.code = "invalidConfiguration"

\* C10 amended: calculateMotion on a profile constructed with positive
\* constants on which startMotion was never called fails with
\* reachedTheTarget.
C10_NeverStartedReached ==
    (IsCalc /\ ~started /\ CtorPositive) => ret.code = "reachedTheTarget"

\* C10 witness: a query on a never started profile with positive constants
C10_Witness ==
    /\ IsCalc /\ ~started /\ ~ended /\ CtorPositive
    /\ pre.acceleration = ctor[1] /\ pre.speedLimit = ctor[2]
    /\ ret.code = "reachedTheTarget"

\* C11: on a configured profile a query with t < startTime returns
\* invalidArgument and leaves every field of the profile unchanged.
C11_BeforeStart ==
    (IsCalc /\ pre.isConfiguredFlag /\ Lt(ret.t, pre.startTime)) =>
        /\ ret.code = "invalidArgument"
        /\ tmp = pre

\* C28: startMotion leaves the physical constants alone: after a successful
\* startMotion the acceleration and the speed limit are still the values
\* given at construction, and a startMotion with x0 # xt on a configured
\* profile succeeds.
C28_ConstantsKept ==
    /\ (IsStart /\ ret.code = "success") =>
           /\ tmp.acceleration = ctor[1]
           /\ tmp.speedLimit = ctor[2]
    /\ (IsStart /\ pre.isConfiguredFlag /\ ret.x0 # ret.xt) => ret.code = "success"

\* C29: on a configured profile the move goes from rest at x0 to rest at xt:
\* the query at the start time returns position x0 and speed 0, the query at
\* start time + t3 returns position xt and speed 0.
C29_RestToRest ==
    (IsCalc /\ pre.isConfiguredFlag) =>
        /\ Elapsed = Zero =>
               /\ ret.code = "success"
               /\ ret.result.position = pre.x0
               /\ ret.result.speed = Zero
        /\ Elapsed = pre.t3 =>
               /\ ret.code = "success"
               /\ ret.result.position = pre.xt
               /\ ret.result.speed = Zero

(***************************************************************************)
(* Part 2: the orientation estimator (src/include/gyro.hpp, namespace      *)
(* vislib::gyro).                                                          *)
(*                                                                         *)
(* core::Integrator and the sensor (getAngularSpeed, getAcceleration) are  *)
(* collaborators of the library.  The integrator is modelled as the        *)
(* running integral of the rate over elapsed time; an update that fails    *)
(* leaves it as it was.  Every sensor read and every integrator update of  *)
(* one call either succeeds or fails, as the environment of the call says. *)
(* Angles returned by atan2 are kept as rational multiples of pi.          *)
(***************************************************************************)
\* calls made on one estimator
MaxGyroSteps == 2

One == Int2Q(1)

\* core::Integrator<T, TimeType>{}: accumulated value and time reference
NewIntegrator == [integral |-> Zero, time |-> Zero]
getIntegral(in) == in.integral
setIntegral(in, v) == [in EXCEPT !.integral = v]
\* Integrator::update(time, rate) with outcome e ("success" or an error)
integratorUpdate(in, t, rate, e) ==
    IF e # "success"
    THEN [err |-> e, value |-> Zero, in |-> in]
    ELSE LET v == Add(in.integral, Mul(rate, Sub(t, in.time)))
         IN  [err |-> "success", value |-> v, in |-> [integral |-> v, time |-> t]]

\* YPRElementCalculatorConfig{}
NewConfig == [integralWeight |-> One, offset |-> Zero, integrator |-> NewIntegrator]

\* the object after construction: yawConfig{}, pitchConfig{}, rollConfig{}
NewGyro == [yaw |-> NewConfig, pitch |-> NewConfig, roll |-> NewConfig]

Axes == {"yaw", "pitch", "roll"}
\* the index an axis reads of the angular speed vector: at(0), at(1), at(2)
AxisIndex(axis) == IF axis = "yaw" THEN 0 ELSE IF axis = "pitch" THEN 1 ELSE 2
\* Vector::at(i), counted from 0
at(v, i) == v[i + 1]

\* the places of one call where the sensor or the integrator may fail
Points == {<<st, ax>> : st \in {"rate", "update"}, ax \in Axes}
              \cup {<<"acc", "pitch">>, <<"acc", "roll">>}

\* getAngularSpeed() as read by the calculation of one axis
getAngularSpeed(env, axis) ==
    [err |-> env.fail[<<"rate", axis>>], value |-> env.rate]

\* getAcceleration() as read by the correction hook of one axis
getAcceleration(env, axis) ==
    [err |-> env.fail[<<"acc", axis>>], value |-> env.acc]

\* atan2(y, x) as a multiple of pi, on the directions that are multiples of pi/4
atan2(y, x) ==
    IF y = Zero THEN (IF Lt(x, Zero) THEN One ELSE Zero)
    ELSE IF x = Zero THEN (IF Lt(Zero, y) THEN Q(1, 2) ELSE Q(-1, 2))
    ELSE IF Lt(Zero, x) THEN (IF Lt(Zero, y) THEN Q(1, 4) ELSE Q(-1, 4))
    ELSE (IF Lt(Zero, y) THEN Q(3, 4) ELSE Q(-3, 4))
\* atan2 is exactly representable on (y, x)
HasAngle(y, x) == y = Zero \/ x = Zero \/ absF(y) = absF(x)
\* core::rad2Deg of a multiple of pi
rad2Deg(a) == Mul(a, Int2Q(180))

\* YawCalculator::internalNonIntegralPartYawCalculation
internalNonIntegralPartYawCalculation(env) == [err |-> "success", value |-> Zero]

\* PitchCalculatorWithAcceleration::internalNonIntegralPartPitchCalculation
internalNonIntegralPartPitchCalculation(env) ==
    LET acceleration == getAcceleration(env, "pitch")
        accY == at(acceleration.value, 1)
        accZ == at(acceleration.value, 2)
        temp == sqrt(Add(Mul(accY, accY), Mul(accZ, accZ)))
    IN  IF acceleration.err # "success" THEN [err |-> acceleration.err, value |-> Zero]
        ELSE IF temp = Zero THEN [err |-> "success", value |-> Zero]
        ELSE [err |-> "success", value |-> rad2Deg(atan2(accY, temp))]

\* RollCalculatorWithAcceleration::internalNonIntegralPartRollCalculation
internalNonIntegralPartRollCalculation(env) ==
    LET acceleration == getAcceleration(env, "roll")
        accY == at(acceleration.value, 1)
        accZ == at(acceleration.value, 2)
    IN  IF acceleration.err # "success" THEN [err |-> acceleration.err, value |-> Zero]
        ELSE IF accZ = Zero THEN [err |-> "success", value |-> Int2Q(90)]
        ELSE [err |-> "success", value |-> rad2Deg(atan2(accY, accZ))]

\* the correction hook of an axis
nonIntegralPart(env, axis) ==
    IF axis = "yaw" THEN internalNonIntegralPartYawCalculation(env)
    ELSE IF axis = "pitch" THEN internalNonIntegralPartPitchCalculation(env)
    ELSE internalNonIntegralPartRollCalculation(env)

\* a blend with the two weights exchanged (differs from blend)
blend_WeightsSwapped(temp, nonIntegral, w) ==
    Add(Mul(temp, Sub(One, w)), Mul(nonIntegral, w))

\* a blend that adds the whole correction (differs from blend)
blend_WholeCorrection(temp, nonIntegral, w) ==
    Add(Mul(temp, w), nonIntegral)

\* temp() * integralWeight + nonIntegral() * (T(1) - integralWeight)
blend(temp, nonIntegral, w) ==
    Add(Mul(temp, w), Mul(nonIntegral, Sub(One, w)))

\* integrator.setIntegral(v); return integrator.getIntegral();
storeAxis(cfg, in, v) ==
    [err |-> "success", value |-> getIntegral(setIntegral(in, v)),
     cfg |-> [cfg EXCEPT !.integrator = setIntegral(in, v)]]

\* the last statements of calculateYaw / calculatePitch / calculateRoll, with
\* temp the outcome of the integrator update and nonIntegral that of the hook:
\* the hook is called after the integrator has been updated
finishAxis(cfg, temp, nonIntegral) ==
    IF temp.err # "success"
    THEN [err |-> temp.err, value |-> Zero, cfg |-> [cfg EXCEPT !.integrator = temp.in]]
    ELSE IF nonIntegral.err # "success"
    THEN [err |-> nonIntegral.err, value |-> Zero,
          cfg |-> [cfg EXCEPT !.integrator = temp.in]]
    ELSE storeAxis(cfg, temp.in,
                   blend(temp.value, nonIntegral.value, cfg.integralWeight))

\* calculateYaw / calculatePitch / calculateRoll on the config of the axis:
\* error code, value returned and the config afterwards
calculateAxis(cfg, env, t, axis) ==
    IF getAngularSpeed(env, axis).err # "success"
    THEN [err |-> getAngularSpeed(env, axis).err, value |-> Zero, cfg |-> cfg]
    ELSE finishAxis(cfg,
                    integratorUpdate(cfg.integrator, t,
                                     at(getAngularSpeed(env, axis).value, AxisIndex(axis)),
                                     env.fail[<<"update", axis>>]),
                    nonIntegralPart(env, axis))

\* the outcome r of the calculation of one axis, as the outcome for the object g
withYaw(g, r) == [err |-> r.err, value |-> r.value, g |-> [g EXCEPT !.yaw = r.cfg]]
withPitch(g, r) == [err |-> r.err, value |-> r.value, g |-> [g EXCEPT !.pitch = r.cfg]]
withRoll(g, r) == [err |-> r.err, value |-> r.value, g |-> [g EXCEPT !.roll = r.cfg]]

calculateYaw(g, env, t) == withYaw(g, calculateAxis(g.yaw, env, t, "yaw"))
calculatePitch(g, env, t) == withPitch(g, calculateAxis(g.pitch, env, t, "pitch"))
calculateRoll(g, env, t) == withRoll(g, calculateAxis(g.roll, env, t, "roll"))

\* UltimateGyroCalculator::getYaw / getPitch / getRoll
getYaw(g) == getIntegral(g.yaw.integrator)
getPitch(g) == getIntegral(g.pitch.integrator)
getRoll(g) == getIntegral(g.roll.integrator)
getAxis(g, axis) ==
    IF axis = "yaw" THEN getYaw(g) ELSE IF axis = "pitch" THEN getPitch(g) ELSE getRoll(g)

\* initYawCalculator / initPitchCalculator / initRollCalculator(config) on
\* the config cfg of the axis: the config afterwards (the init hook succeeds)
initAxis(cfg, config) ==
    [config EXCEPT !.integrator =
         setIntegral(@, Add(getIntegral(config.integrator), config.offset))]

initYawCalculator(g, config) == [g EXCEPT !.yaw = initAxis(g.yaw, config)]
initPitchCalculator(g, config) == [g EXCEPT !.pitch = initAxis(g.pitch, config)]
initRollCalculator(g, config) == [g EXCEPT !.roll = initAxis(g.roll, config)]

\* YPR<T>{}
NoYPR == [yaw |-> Zero, pitch |-> Zero, roll |-> Zero]

\* calculateYPR after the roll has been calculated
afterRoll(yaw, pitch, roll) ==
    IF roll.err # "success"
    THEN [err |-> roll.err, ypr |-> NoYPR, g |-> roll.g,
          evals |-> <<"yaw", "pitch", "roll">>]
    ELSE [err |-> "success",
          ypr |-> [yaw |-> yaw.value, pitch |-> pitch.value, roll |-> roll.value],
          g |-> roll.g, evals |-> <<"yaw", "pitch", "roll">>]

\* calculateYPR going on to the roll whatever the pitch returned (differs
\* from afterPitch)
afterPitch_GoOn(yaw, pitch, env, t) ==
    afterRoll(yaw, pitch, calculateRoll(pitch.g, env, t))

\* calculateYPR after the pitch has been calculated
afterPitch(yaw, pitch, env, t) ==
    IF pitch.err # "success"
    THEN [err |-> pitch.err, ypr |-> NoYPR, g |-> pitch.g,
          evals |-> <<"yaw", "pitch">>]
    ELSE afterRoll(yaw, pitch, calculateRoll(pitch.g, env, t))

\* calculateYPR after the yaw has been calculated
afterYaw(yaw, env, t) ==
    IF yaw.err # "success"
    THEN [err |-> yaw.err, ypr |-> NoYPR, g |-> yaw.g, evals |-> <<"yaw">>]
    ELSE afterPitch(yaw, calculatePitch(yaw.g, env, t), env, t)

\* YPRCalculator::calculateYPR(currentTime): error code, the three angles,
\* the object afterwards and the axes that were evaluated
calculateYPR(g, env, t) == afterYaw(calculateYaw(g, env, t), env, t)

\* UltimateGyroCalculator::update(currentTime)
update(g, env, t) == [calculateYPR(g, env, t) EXCEPT !.ypr = NoYPR]

(***************************************************************************)
(* The state machine of one estimator, its sensor and its caller.          *)
(***************************************************************************)

\* a calibration that zeroes the angle of the axis (differs from calibrateAxis)
calibrateAxis_Zeroed(cfg) ==
    [cfg EXCEPT !.offset = Add(cfg.offset, getIntegral(cfg.integrator)),
                !.integrator = setIntegral(cfg.integrator, Zero)]

\* calibrate() on one axis: offset += angle; integrator.setIntegral(offset)
calibrateAxis(cfg) ==
    [cfg EXCEPT !.offset = Add(cfg.offset, getIntegral(cfg.integrator)),
                !.integrator = setIntegral(cfg.integrator,
                                           Add(cfg.offset, getIntegral(cfg.integrator)))]

\* UltimateGyroCalculator::calibrate(): yaw, roll, pitch; returns {}
calibrate(g) ==
    [err |-> "success",
     g |-> [yaw |-> calibrateAxis(g.yaw), roll |-> calibrateAxis(g.roll),
            pitch |-> calibrateAxis(g.pitch)]]

\* the times handed to the estimator
GyroTimes == {Int2Q(1), Int2Q(2)}
\* angular speed vectors the sensor returns
GyroRates == {<<Int2Q(1), Int2Q(2), Int2Q(-1)>>}
\* acceleration vectors the sensor returns
GyroAccs == {<<Zero, Int2Q(1), Zero>>, <<Zero, Zero, Int2Q(-1)>>}
\* the sensor in free fall
NoAcc == <<Zero, Zero, Zero>>
\* the configs handed to the init functions
GyroConfigs ==
    {[integralWeight |-> w, offset |-> o, integrator |-> [integral |-> i, time |-> Zero]] :
        w \in {Q(1, 2), One}, o \in {Zero, One}, i \in {Zero, Int2Q(3)}}

NoFail == [p \in Points |-> "success"]
\* no failure, one failure, or the failing rate reads of two axes, with
\* different error codes
FailMaps(points) ==
    {NoFail}
        \cup {[NoFail EXCEPT ![p] = "sensorError"] : p \in points}
        \cup {[NoFail EXCEPT ![p[1]] = "sensorError", ![p[2]] = "otherError"] :
                 p \in {pq \in points \X points :
                           /\ AxisIndex(pq[1][2]) < AxisIndex(pq[2][2])
                           /\ pq[1][1] = "rate" /\ pq[2][1] = "rate"}}

Envs(accs, points) ==
    {[rate |-> r, acc |-> a, fail |-> f] :
        r \in GyroRates, a \in accs, f \in FailMaps(points)}
NoEnv == [rate |-> <<Zero, Zero, Zero>>, acc |-> NoAcc, fail |-> NoFail]

GyroCall(op, axis, t, env, config, code, value, ypr, evals) ==
    [op |-> op, axis |-> axis, t |-> t, env |-> env, config |-> config,
     code |-> code, value |-> value, ypr |-> ypr, evals |-> evals]

InitGyro ==
    /\ gyro = NewGyro
    /\ gpre = NewGyro
    /\ gret = GyroCall("construct", "none", Zero, NoEnv, NewConfig, "success",
                       Zero, NoYPR, <<>>)
    /\ gsteps = 0
    /\ tmp = DefaultProfile /\ pre = DefaultProfile
    /\ ret = Call("construct", Zero, Zero, Zero, "success", DefaultResult)
    /\ ctor = <<Zero, Zero>>
    /\ started = FALSE /\ startOk = FALSE /\ ended = FALSE
    /\ par = <<>> /\ platform = <<>> /\ plret = <<>>
    /\ drive = <<>> /\ dret = <<>>

InitAxisCalculator ==
    \E axis \in Axes, config \in GyroConfigs :
        /\ gsteps < MaxGyroSteps
        /\ gyro' = (IF axis = "yaw" THEN initYawCalculator(gyro, config)
                    ELSE IF axis = "pitch" THEN initPitchCalculator(gyro, config)
                    ELSE initRollCalculator(gyro, config))
        /\ gret' = GyroCall("init", axis, Zero, NoEnv, config, "success",
                            Zero, NoYPR, <<>>)
        /\ gpre' = gyro
        /\ gsteps' = gsteps + 1
        /\ UNCHANGED <<tmpVars, platVars, driveVars>>

\* the caller's view of one single-axis calculation with outcome r
AxisStep(r, axis, t, env) ==
    /\ gyro' = r.g
    /\ gret' = GyroCall("calculate", axis, t, env, NewConfig, r.err, r.value, NoYPR,
                        <<axis>>)
    /\ gpre' = gyro
    /\ gsteps' = gsteps + 1
    /\ UNCHANGED <<tmpVars, platVars, driveVars>>

\* the caller's view of one calculateYPR or update with outcome r
AllStep(r, op, t, env) ==
    /\ gyro' = r.g
    /\ gret' = GyroCall(op, "none", t, env, NewConfig, r.err, Zero, r.ypr, r.evals)
    /\ gpre' = gyro
    /\ gsteps' = gsteps + 1
    /\ UNCHANGED <<tmpVars, platVars, driveVars>>

CalculateYaw ==
    \E t \in GyroTimes, env \in Envs({NoAcc}, {p \in Points : p[2] = "yaw"}) :
        /\ gsteps < MaxGyroSteps
        /\ AxisStep(calculateYaw(gyro, env, t), "yaw", t, env)

CalculatePitch ==
    \E t \in GyroTimes, env \in Envs(GyroAccs \cup {NoAcc}, {p \in Points : p[2] = "pitch"}) :
        /\ gsteps < MaxGyroSteps
        /\ AxisStep(calculatePitch(gyro, env, t), "pitch", t, env)

CalculateRoll ==
    \E t \in GyroTimes, env \in Envs(GyroAccs \cup {NoAcc}, {p \in Points : p[2] = "roll"}) :
        /\ gsteps < MaxGyroSteps
        /\ AxisStep(calculateRoll(gyro, env, t), "roll", t, env)

CalculateYPR ==
    \E t \in GyroTimes, env \in Envs(GyroAccs, Points) :
        /\ gsteps < MaxGyroSteps
        /\ AllStep(calculateYPR(gyro, env, t), "calculateYPR", t, env)

Update ==
    \E t \in GyroTimes, env \in Envs({<<Zero, Int2Q(1), Zero>>}, {p \in Points : p[1] = "rate"}) :
        /\ gsteps < MaxGyroSteps
        /\ AllStep(update(gyro, env, t), "update", t, env)

CalibrateStep(r) ==
    /\ gyro' = r.g
    /\ gret' = GyroCall("calibrate", "none", Zero, NoEnv, NewConfig, r.err, Zero,
                        NoYPR, <<>>)
    /\ gpre' = gyro
    /\ gsteps' = gsteps + 1
    /\ UNCHANGED <<tmpVars, platVars, driveVars>>

Calibrate ==
    /\ gsteps < MaxGyroSteps
    /\ CalibrateStep(calibrate(gyro))

NextGyro ==
    \/ InitAxisCalculator
    \/ Calibrate
    \/ CalculateYaw
    \/ CalculatePitch
    \/ CalculateRoll
    \/ CalculateYPR
    \/ Update

SpecGyro == InitGyro /\ [][NextGyro]_vars

(***************************************************************************)
(* The claims about the estimator, over the last call (gpre, gret, gyro).  *)
(***************************************************************************)
IsAxisCalc == gret.op = "calculate"
IsAll == gret.op \in {"calculateYPR", "update"}
IsInit == gret.op = "init"

\* the integral of the rate of the axis over the time since the axis'
\* time reference, added to the accumulated value of cfg
Integrated(cfg, env, t, axis) ==
    Add(cfg.integrator.integral,
        Mul(env.rate[AxisIndex(axis) + 1], Sub(t, cfg.integrator.time)))

\* what the correction hook of the axis returns
Correction(env, axis) == nonIntegralPart(env, axis).value

\* integrated * weight + correction * (1 - weight)
Blended(cfg, env, t, axis) ==
    Add(Mul(Integrated(cfg, env, t, axis), cfg.integralWeight),
        Mul(Correction(env, axis), Sub(One, cfg.integralWeight)))

\* C12: every successful calculateYaw / calculatePitch / calculateRoll
\* returns integrated * weight + correction * (1 - weight), and the getter of
\* the axis returns that same value afterwards.
C12_Blend ==
    (IsAxisCalc /\ gret.code = "success") =>
        /\ gret.value = Blended(gpre[gret.axis], gret.env, gret.t, gret.axis)
        /\ getAxis(gyro, gret.axis) = gret.value

\* a successful calculation that mixes a rate integral and a correction that
\* are both non-zero and differ
C12_Witness ==
    /\ IsAxisCalc /\ gret.code = "success"
    /\ gpre[gret.axis].integralWeight = Q(1, 2)
    /\ Correction(gret.env, gret.axis) # Zero
    /\ Integrated(gpre[gret.axis], gret.env, gret.t, gret.axis) # Zero
    /\ Integrated(gpre[gret.axis], gret.env, gret.t, gret.axis)
           # Correction(gret.env, gret.axis)
    /\ getAxis(gyro, gret.axis) = gret.value

\* C13: when calculateYaw / calculatePitch / calculateRoll returns an error,
\* the integrator of the axis (accumulated value and time reference) is as
\* it was before the call.
C13_ErrorKeepsState ==
    (IsAxisCalc /\ gret.code # "success") =>
        gyro[gret.axis].integrator = gpre[gret.axis].integrator

\* the error of the first place where the calculation of the axis fails
AxisError(env, axis) ==
    IF env.fail[<<"rate", axis>>] # "success" THEN env.fail[<<"rate", axis>>]
    ELSE IF env.fail[<<"update", axis>>] # "success" THEN env.fail[<<"update", axis>>]
    ELSE IF axis # "yaw" /\ env.fail[<<"acc", axis>>] # "success"
    THEN env.fail[<<"acc", axis>>]
    ELSE "success"

\* C14: calculateYPR and update evaluate yaw, then pitch, then roll; the
\* error of the first failing axis is returned and the axes after it are
\* not evaluated (they keep their state); on success calculateYPR returns
\* the three blended values.
C14_FirstFailure ==
    IsAll =>
        LET yawErr == AxisError(gret.env, "yaw")
            pitchErr == AxisError(gret.env, "pitch")
            rollErr == AxisError(gret.env, "roll")
        IN  IF yawErr # "success"
            THEN /\ gret.code = yawErr
                 /\ gret.evals = <<"yaw">>
                 /\ gyro.pitch = gpre.pitch /\ gyro.roll = gpre.roll
            ELSE IF pitchErr # "success"
            THEN /\ gret.code = pitchErr
                 /\ gret.evals = <<"yaw", "pitch">>
                 /\ getYaw(gyro) = Blended(gpre.yaw, gret.env, gret.t, "yaw")
                 /\ gyro.roll = gpre.roll
            ELSE IF rollErr # "success"
            THEN /\ gret.code = rollErr
                 /\ gret.evals = <<"yaw", "pitch", "roll">>
                 /\ getYaw(gyro) = Blended(gpre.yaw, gret.env, gret.t, "yaw")
                 /\ getPitch(gyro) = Blended(gpre.pitch, gret.env, gret.t, "pitch")
            ELSE /\ gret.code = "success"
                 /\ gret.evals = <<"yaw", "pitch", "roll">>
                 /\ getYaw(gyro) = Blended(gpre.yaw, gret.env, gret.t, "yaw")
                 /\ getPitch(gyro) = Blended(gpre.pitch, gret.env, gret.t, "pitch")
                 /\ getRoll(gyro) = Blended(gpre.roll, gret.env, gret.t, "roll")
                 /\ gret.op = "calculateYPR" =>
                        gret.ypr = [yaw |-> getYaw(gyro), pitch |-> getPitch(gyro),
                                    roll |-> getRoll(gyro)]

\* pitch fails after yaw succeeded, and the roll would have failed with
\* another error: the error of the pitch is returned
C14_Witness ==
    /\ gret.op = "calculateYPR"
    /\ AxisError(gret.env, "yaw") = "success"
    /\ AxisError(gret.env, "pitch") = "sensorError"
    /\ AxisError(gret.env, "roll") = "otherError"
    /\ gret.code = "sensorError"
    /\ gret.evals = <<"yaw", "pitch">>

\* C15: with integralWeight = 1 every successful calculation returns and
\* stores the rate integral, whatever the correction hook returns.
C15_PureIntegration ==
    (IsAxisCalc /\ gret.code = "success" /\ gpre[gret.axis].integralWeight = One) =>
        /\ gret.value = Integrated(gpre[gret.axis], gret.env, gret.t, gret.axis)
        /\ getAxis(gyro, gret.axis) = gret.value

\* weight 1 with a correction that is not zero and differs from the integral
C15_Witness ==
    /\ IsAxisCalc /\ gret.code = "success"
    /\ gpre[gret.axis].integralWeight = One
    /\ Correction(gret.env, gret.axis) # Zero
    /\ gret.value # Correction(gret.env, gret.axis)
    /\ gret.value = Integrated(gpre[gret.axis], gret.env, gret.t, gret.axis)

\* C16: re-initialising an axis that has accumulated the angle v leaves the
\* axis angle at v + config.offset.
C16_ReinitKeepsAngle ==
    (IsInit /\ getAxis(gpre, gret.axis) # Zero) =>
        getAxis(gyro, gret.axis) = Add(getAxis(gpre, gret.axis), gret.config.offset)

\* the last call was calibrate
IsCalibrate == gret.op = "calibrate"

\* C30: calibrate() returns success and, for each of yaw, pitch and roll,
\* sets the offset to the old offset plus the angle of the axis and the angle
\* to that new offset, which the getter of the axis then returns; it changes
\* nothing else.
C30_Calibrate ==
    IsCalibrate =>
        /\ gret.code = "success"
        /\ \A axis \in Axes :
               /\ gyro[axis].offset = Add(gpre[axis].offset, getAxis(gpre, axis))
               /\ getAxis(gyro, axis) = gyro[axis].offset
               /\ gyro[axis].integralWeight = gpre[axis].integralWeight
               /\ gyro[axis].integrator.time = gpre[axis].integrator.time

\* an axis with an offset and another angle is calibrated
C30_Witness ==
    /\ IsCalibrate
    /\ \E axis \in Axes :
           /\ gpre[axis].offset # Zero
           /\ getAxis(gpre, axis) # gpre[axis].offset
           /\ getAxis(gyro, axis) = Add(gpre[axis].offset, getAxis(gpre, axis))

(***************************************************************************)
(* Part 3: the platform (src/include/gyro.hpp, namespace vislib::platform).*)
(*                                                                         *)
(* Mount angles are exact rationals (degrees).  A controller is whatever   *)
(* the Controller parameter of Platform is: each call of its setSpeed or   *)
(* setSpeedInRange succeeds or fails as the environment of the call says.  *)
(***************************************************************************)
\* wheels of a platform
MaxMotors == 3
\* decimal places handed to updateParallelAxisesForMotors range over 0..MaxPrecision
MaxPrecision == 1

\* MotorInfo: the fields the platform reads
MotorInfo(anglePos, parallelAxisesAmount) ==
    [anglePos |-> anglePos, parallelAxisesAmount |-> parallelAxisesAmount]

RECURSIVE pow10(_)
\* pow(10, precision)
pow10(precision) == IF precision = 0 THEN 1 ELSE 10 * pow10(precision - 1)

\* lround: the nearest integer, halves away from zero
lround(q) ==
    (IF q[1] < 0 THEN -1 ELSE 1) * ((2 * Abs(q[1]) + q[2]) \div (2 * q[2]))

\* lround(absF(a - b) * pow(10, precision))
diff(a, b, precision) == lround(Mul(absF(Sub(a, b)), Int2Q(pow10(precision))))

\* the test of the inner loop: diff == 0 || diff == 180
isParallel(a, b, precision) ==
    diff(a, b, precision) = 0 \/ diff(a, b, precision) = 180

\* updateParallelAxisesForMotors(config, precision): every count is set to 1
\* and every pair i < j that passes the test adds one to both counts
updateParallelAxisesForMotors(config, precision) ==
    [i \in 1..Len(config) |->
        [config[i] EXCEPT !.parallelAxisesAmount =
            1 + Cardinality({j \in 1..Len(config) :
                                j # i /\ isParallel(config[i].anglePos,
                                                    config[j].anglePos, precision)})]]

\* mount angles
Angles == {Zero, Int2Q(18), Int2Q(90), Int2Q(180)}
\* the motor sets handed to updateParallelAxisesForMotors
MotorConfigs ==
    UNION {[1..n -> {MotorInfo(a, c) : a \in Angles, c \in {1, 2}}] : n \in 0..MaxMotors}

InitParallel ==
    /\ par \in {[config |-> c, precision |-> p, result |-> <<>>, done |-> FALSE] :
                   c \in MotorConfigs, p \in 0..MaxPrecision}
    /\ platform = <<>> /\ plret = <<>>
    /\ drive = <<>> /\ dret = <<>>
    /\ tmp = DefaultProfile /\ pre = DefaultProfile
    /\ ret = Call("construct", Zero, Zero, Zero, "success", DefaultResult)
    /\ ctor = <<Zero, Zero>>
    /\ started = FALSE /\ startOk = FALSE /\ ended = FALSE
    /\ gyro = <<>> /\ gpre = <<>> /\ gret = <<>> /\ gsteps = 0

UpdateParallelAxisesForMotors ==
    /\ ~par.done
    /\ par' = [par EXCEPT !.result = updateParallelAxisesForMotors(par.config, par.precision),
                          !.done = TRUE]
    /\ UNCHANGED <<platform, plret, tmpVars, gyroVars, driveVars>>

NextParallel == UpdateParallelAxisesForMotors

SpecParallel == InitParallel /\ [][NextParallel]_vars

\* the wheels compared at p decimal places: the rounded difference is 0 or 180
ParallelAt(a, b, p) ==
    \/ lround(Mul(absF(Sub(a, b)), Int2Q(pow10(p)))) = 0
    \/ lround(Mul(absF(Sub(a, b)), Int2Q(pow10(p)))) = lround(Mul(Int2Q(180), Int2Q(pow10(p))))

\* C17: every wheel gets 1 + the number of other wheels whose mount angle
\* differs from its own by 0 or by 180 degrees, compared at p decimal places.
C17_ParallelCount ==
    par.done =>
        \A i \in 1..Len(par.config) :
            par.result[i].parallelAxisesAmount =
                1 + Cardinality({j \in 1..Len(par.config) :
                                    j # i /\ ParallelAt(par.config[i].anglePos,
                                                        par.config[j].anglePos,
                                                        par.precision)})

(***************************************************************************)
(* The Platform object and its two speed setters.                          *)
(***************************************************************************)
\* core::Error{}: no error, empty message.  A message is the sequence of its
\* parts: <<0, text>> for a text of the platform, <<i, code>> for the message
\* of controller i.
NoError == [errcode |-> "success", msg |-> <<>>]

\* Platform(configuration, parallelismPrecision): one controller for each
\* motor of the grouped configuration
Platform(configuration, parallelismPrecision) ==
    [controllers |-> updateParallelAxisesForMotors(configuration, parallelismPrecision)]

\* the error a controller returns: its code, and a message naming the controller
ControllerError(i, code) ==
    IF code = "success" THEN NoError ELSE [errcode |-> code, msg |-> <<<<i, code>>>>]

\* the body of the loop for one failing controller that keeps the code of
\* the error met first (differs from addError)
addError_KeepFirst(err, e) ==
    [errcode |-> IF err.errcode = "success" THEN e.errcode ELSE err.errcode,
     msg |-> err.msg \o <<<<0, "Another error encountered">>>> \o e.msg]

\* if(e) { err.errcode = e.errcode; err.msg = err.msg + "..." + e.msg; }
addError(err, e) ==
    [errcode |-> e.errcode,
     msg |-> err.msg \o <<<<0, "Another error encountered">>>> \o e.msg]

RECURSIVE applySpeeds_StopAtFailure(_, _, _, _, _)
\* a loop that returns at the first failing controller (differs from applySpeeds)
applySpeeds_StopAtFailure(i, args, outcome, err, calls) ==
    IF i > Len(args) THEN [err |-> err, calls |-> calls]
    ELSE IF outcome[i] # "success"
    THEN [err |-> addError(err, ControllerError(i, outcome[i])),
          calls |-> Append(calls, <<i, args[i]>>)]
    ELSE applySpeeds_StopAtFailure(i + 1, args, outcome, err, Append(calls, <<i, args[i]>>))

RECURSIVE applySpeeds(_, _, _, _, _)
\* the loop of setSpeeds / setSpeedsInRanges from controller i on: controller
\* i is called with args[i] and answers outcome[i]
applySpeeds(i, args, outcome, err, calls) ==
    IF i > Len(args) THEN [err |-> err, calls |-> calls]
    ELSE applySpeeds(i + 1, args, outcome,
                     IF outcome[i] # "success"
                     THEN addError(err, ControllerError(i, outcome[i]))
                     ELSE err,
                     Append(calls, <<i, args[i]>>))

\* setSpeeds that applies the speeds to the controllers there are, whatever
\* the sizes (differs from setSpeeds)
setSpeeds_NoSizeCheck(p, speeds, outcome) ==
    applySpeeds(1, SubSeq(speeds, 1, IF Len(speeds) < Len(p.controllers)
                                     THEN Len(speeds) ELSE Len(p.controllers)),
                outcome, NoError, <<>>)

\* Platform::setSpeeds(speeds)
setSpeeds(p, speeds, outcome) ==
    IF Len(speeds) # Len(p.controllers)
    THEN [err |-> [errcode |-> "invalidArgument", msg |-> <<<<0, "different amount">>>>],
          calls |-> <<>>]
    ELSE applySpeeds(1, speeds, outcome, NoError, <<>>)

\* Platform::setSpeedsInRanges(speeds, ranges)
setSpeedsInRanges(p, speeds, ranges, outcome) ==
    IF Len(speeds) # Len(p.controllers) \/ Len(speeds) # Len(ranges)
    THEN [err |-> [errcode |-> "invalidArgument", msg |-> <<<<0, "different amounts">>>>],
          calls |-> <<>>]
    ELSE applySpeeds(1, [i \in 1..Len(speeds) |-> <<speeds[i], ranges[i]>>],
                     outcome, NoError, <<>>)

\* the configuration of a platform of n wheels, 90 degrees apart
WheelConfig(n) == [i \in 1..n |-> MotorInfo(Int2Q(90 * (i - 1)), 1)]
\* the speeds and the ranges handed to the setters, of every length
SpeedArrays == {[i \in 1..n |-> Int2Q(4 + i)] : n \in 0..MaxMotors}
RangeArrays == {[i \in 1..n |-> <<Int2Q(-10 * i), Int2Q(10 * i)>>] : n \in 0..MaxMotors}
\* what the controllers answer in one call
Outcomes(n) == [1..n -> {"success", "outOfRange", "invalidConfiguration"}]

PlatformCall(op, speeds, ranges, outcome, r) ==
    [op |-> op, speeds |-> speeds, ranges |-> ranges, outcome |-> outcome,
     err |-> r.err, calls |-> r.calls]

InitPlatform ==
    /\ platform \in {Platform(WheelConfig(n), 0) : n \in 0..MaxMotors}
    /\ plret = PlatformCall("construct", <<>>, <<>>, <<>>, [err |-> NoError, calls |-> <<>>])
    /\ par = <<>>
    /\ drive = <<>> /\ dret = <<>>
    /\ tmp = DefaultProfile /\ pre = DefaultProfile
    /\ ret = Call("construct", Zero, Zero, Zero, "success", DefaultResult)
    /\ ctor = <<Zero, Zero>>
    /\ started = FALSE /\ startOk = FALSE /\ ended = FALSE
    /\ gyro = <<>> /\ gpre = <<>> /\ gret = <<>> /\ gsteps = 0

SetSpeeds ==
    \E speeds \in SpeedArrays, outcome \in Outcomes(Len(platform.controllers)) :
        /\ plret' = PlatformCall("setSpeeds", speeds, <<>>, outcome,
                                 setSpeeds(platform, speeds, outcome))
        /\ UNCHANGED <<platform, par, tmpVars, gyroVars, driveVars>>

SetSpeedsInRanges ==
    \E speeds \in SpeedArrays, ranges \in RangeArrays,
       outcome \in Outcomes(Len(platform.controllers)) :
        /\ plret' = PlatformCall("setSpeedsInRanges", speeds, ranges, outcome,
                                 setSpeedsInRanges(platform, speeds, ranges, outcome))
        /\ UNCHANGED <<platform, par, tmpVars, gyroVars, driveVars>>

(***************************************************************************)
(* Platform::init(ports).                                                  *)
(***************************************************************************)
\* the error init returns for controller i
InitError(code, i, text) == [errcode |-> code, msg |-> <<<<i, text>>>>]

RECURSIVE initFrom_GoOn(_, _, _, _, _, _)
\* a loop that goes on after a failure, as the speed setters do (differs
\* from initFrom)
initFrom_GoOn(i, p, ports, valid, outcome, r) ==
    IF i > Len(p.controllers) THEN r
    ELSE IF ~valid[i]
    THEN initFrom_GoOn(i + 1, p, ports, valid, outcome,
             [r EXCEPT !.err = InitError("initFailed", i, "invalid motor controller")])
    ELSE IF i > Len(ports)
    THEN initFrom_GoOn(i + 1, p, ports, valid, outcome,
             [r EXCEPT !.err = InitError("invalidArgument", i, "invalid port array")])
    ELSE initFrom_GoOn(i + 1, p, ports, valid, outcome,
             [err |-> IF outcome[i] # "success"
                      THEN InitError("initFailed", i, outcome[i]) ELSE r.err,
              calls |-> Append(r.calls, <<i, ports[i]>>)])

RECURSIVE initFrom(_, _, _, _, _, _)
\* the loop of Platform::init from controller i on: valid[i] says whether
\* _controllers.at(i) holds a controller, ports.at(i) fails past the end of
\* ports, and the init of controller i answers outcome[i]
initFrom(i, p, ports, valid, outcome, r) ==
    IF i > Len(p.controllers) THEN r
    ELSE IF ~valid[i]
    THEN [r EXCEPT !.err = InitError("initFailed", i, "invalid motor controller")]
    ELSE IF i > Len(ports)
    THEN [r EXCEPT !.err = InitError("invalidArgument", i, "invalid port array")]
    ELSE IF outcome[i] # "success"
    THEN [err |-> InitError("initFailed", i, outcome[i]),
          calls |-> Append(r.calls, <<i, ports[i]>>)]
    ELSE initFrom(i + 1, p, ports, valid, outcome,
                  [r EXCEPT !.calls = Append(r.calls, <<i, ports[i]>>)])

\* Platform::init(ports)
init(p, ports, valid, outcome) ==
    initFrom(1, p, ports, valid, outcome, [err |-> NoError, calls |-> <<>>])

\* the port arrays, of every length
PortArrays == {[i \in 1..n |-> 20 - i] : n \in 0..MaxMotors}
\* what _controllers.at(i) and the init of each controller answer
Valids(n) == [1..n -> BOOLEAN]
InitOutcomes(n) == [1..n -> {"success", "invalidResource"}]

InitCall(ports, valid, outcome, r) ==
    [op |-> "init", ports |-> ports, valid |-> valid, outcome |-> outcome,
     err |-> r.err, calls |-> r.calls]

InitStep(r, ports, valid, outcome) ==
    /\ plret' = InitCall(ports, valid, outcome, r)
    /\ UNCHANGED <<platform, par, tmpVars, gyroVars, driveVars>>

PlatformInit ==
    \E ports \in PortArrays, valid \in Valids(Len(platform.controllers)),
       outcome \in InitOutcomes(Len(platform.controllers)) :
        /\ platform # <<>>
        /\ InitStep(init(platform, ports, valid, outcome), ports, valid, outcome)

\* the initialisation of a constructed platform, on its own
NextInit == PlatformInit

SpecInit == InitPlatform /\ [][NextInit]_vars

NextPlatform ==
    \/ SetSpeeds
    \/ SetSpeedsInRanges

SpecPlatform == InitPlatform /\ [][NextPlatform]_vars

(***************************************************************************)
(* The claims about the speed setters, over the last call (plret).         *)
(***************************************************************************)
IsSet == plret.op \in {"setSpeeds", "setSpeedsInRanges"}
Controllers == 1..Len(platform.controllers)
\* the sizes of the arguments of the last call fit the platform
SizesFit ==
    /\ Len(plret.speeds) = Len(platform.controllers)
    /\ plret.op = "setSpeedsInRanges" => Len(plret.ranges) = Len(plret.speeds)
Failing == {i \in Controllers : plret.outcome[i] # "success"}

\* C18: with speeds (or ranges) of another length than the controllers, both
\* setters return invalidArgument and call no controller.
C18_SizeMismatch ==
    (IsSet /\ ~SizesFit) =>
        /\ plret.err.errcode = "invalidArgument"
        /\ plret.calls = <<>>

\* setSpeeds with fewer speeds than controllers, none of which would fail
C18_Witness ==
    /\ plret.op = "setSpeeds"
    /\ Len(plret.speeds) > 0
    /\ Len(plret.speeds) < Len(platform.controllers)
    /\ Failing = {}
    /\ plret.err.errcode = "invalidArgument"

\* setSpeedsInRanges with as many speeds as controllers and fewer ranges
C18_WitnessRanges ==
    /\ plret.op = "setSpeedsInRanges"
    /\ Len(plret.speeds) = Len(platform.controllers)
    /\ Len(plret.ranges) < Len(plret.speeds)
    /\ plret.err.errcode = "invalidArgument"

\* C19: setSpeeds with matching length calls setSpeed(speeds[i]) on every
\* controller once, in index order, also after failures; it returns success
\* iff every controller succeeded, and otherwise an error whose message
\* contains the message of every failing controller.
C19_BestEffort ==
    (plret.op = "setSpeeds" /\ SizesFit) =>
        /\ plret.calls = [i \in Controllers |-> <<i, plret.speeds[i]>>]
        /\ (plret.err.errcode = "success") <=> (Failing = {})
        /\ \A i \in Failing :
               \E k \in 1..Len(plret.err.msg) : plret.err.msg[k] = <<i, plret.outcome[i]>>

\* the first controller fails and the later ones are still called
C19_Witness ==
    /\ plret.op = "setSpeeds" /\ SizesFit
    /\ Len(platform.controllers) = MaxMotors
    /\ plret.outcome[1] # "success"
    /\ plret.outcome[2] = "success"
    /\ plret.outcome[MaxMotors] # "success"
    /\ Len(plret.calls) = MaxMotors
    /\ plret.err.errcode # "success"

\* C20: when several controllers fail in one call, the code of the error
\* returned is the code of the failing controller of the lowest index.
C20_FirstCode ==
    (IsSet /\ SizesFit /\ Cardinality(Failing) > 1) =>
        plret.err.errcode =
            plret.outcome[CHOOSE i \in Failing : \A j \in Failing : i <= j]

(***************************************************************************)
(* Part 4: the motor controller (src/include/motor.hpp) and the speed      *)
(* calculators (src/include/gyro.hpp, namespace calculators).              *)
(*                                                                         *)
(* A core::Range is the pair <<lowest, highest>> with lowest < highest;    *)
(* its operations belong to the core library and are taken as the linear   *)
(* mapping, the clamp and the closed-interval test.                        *)
(***************************************************************************)
\* interface speeds range over -MaxSpeed-1 .. MaxSpeed+1
MaxSpeed == 3

\* Range::contains(value)
contains(range, value) == Le(range[1], value) /\ Le(value, range[2])
\* Range::restrict(value): the value clamped into the range
restrict(range, value) ==
    IF Lt(value, range[1]) THEN range[1]
    ELSE IF Lt(range[2], value) THEN range[2] ELSE value
\* from.mapValueToRange(value, to): the linear map of from onto to
mapValueToRange(from, value, to) ==
    Add(to[1], Div(Mul(Sub(value, from[1]), Sub(to[2], to[1])), Sub(from[2], from[1])))
\* to.mapValueFromRange(value, from)
mapValueFromRange(to, value, from) == mapValueToRange(from, value, to)

\* MotorInfo(anglePos, distance, wheelR, speedRange, interfaceSpeedRange, isReversed)
MotorInfoOf(anglePos, distance, wheelR, speedRange, interfaceSpeedRange, isReversed) ==
    [anglePos |-> anglePos, distance |-> distance, wheelR |-> wheelR,
     speedRange |-> speedRange, interfaceSpeedRange |-> interfaceSpeedRange,
     isReversed |-> isReversed, parallelAxisesAmount |-> 1]

\* a RangedSpeedController over a raw driver that keeps in raw the value
\* last passed to setSpeedRaw
RangedSpeedController(info, raw) == [info |-> info, raw |-> raw]

\* the argument setSpeed hands to setSpeedRaw
rawOf(info, speed) ==
    mapValueToRange(info.interfaceSpeedRange,
                    restrict(info.interfaceSpeedRange,
                             IF info.isReversed THEN Neg(speed) ELSE speed),
                    info.speedRange)

\* RangedSpeedController::setSpeed(speed); e is what setSpeedRaw answers
setSpeed(c, speed, e) ==
    [err |-> e, c |-> IF e = "success" THEN [c EXCEPT !.raw = rawOf(c.info, speed)] ELSE c]

\* the interface speed getSpeed computes from the raw speed
mappedOf(info, raw) ==
    IF info.isReversed
    THEN Neg(mapValueToRange(info.speedRange, raw, info.interfaceSpeedRange))
    ELSE mapValueToRange(info.speedRange, raw, info.interfaceSpeedRange)

\* RangedSpeedController::getSpeed(); e is what getSpeedRaw answers
getSpeed(c, e) ==
    IF e # "success" THEN [err |-> e, value |-> Zero]
    ELSE [err |-> "success", value |-> mappedOf(c.info, c.raw)]

\* RangedSpeedController::inSpeedRange(speed)
inSpeedRange(c, speed) == contains(c.info.interfaceSpeedRange, speed)

\* RangedSpeedController::setSpeedInRange(speed, range)
setSpeedInRange(c, speed, range, e) ==
    setSpeed(c, mapValueFromRange(c.info.interfaceSpeedRange, restrict(range, speed), range), e)

\* the interface ranges: symmetric about zero, one-sided, lopsided
InterfaceRanges ==
    {<<Int2Q(-MaxSpeed), Int2Q(MaxSpeed)>>, <<Zero, Int2Q(MaxSpeed)>>,
     <<Int2Q(-1), Int2Q(MaxSpeed)>>}
\* the ranges of the raw driver
SpeedRanges == {<<Int2Q(-255), Int2Q(255)>>, <<Zero, Int2Q(100)>>}
\* the speeds handed to the controller, inside and outside the interface ranges
Speeds == {Int2Q(i) : i \in (-MaxSpeed - 1)..(MaxSpeed + 1)}
\* the custom ranges handed to setSpeedInRange
CustomRanges == {<<Zero, Int2Q(2)>>, <<Int2Q(-2), Int2Q(2)>>}
\* what the raw driver answers
RawOutcomes == {"success", "invalidResource"}

\* the last call; prev is the call before it when that call succeeded, and
\* getSpeed keeps in speed the speed of the call before it
ControllerCall(op, speed, prev, err, value) ==
    [op |-> op, speed |-> speed, prev |-> prev, err |-> err, value |-> value]

InitController ==
    /\ drive \in {RangedSpeedController(MotorInfoOf(Zero, One, One, sr, ir, rev), Zero) :
                     sr \in SpeedRanges, ir \in InterfaceRanges, rev \in BOOLEAN}
    /\ dret = ControllerCall("construct", Zero, "none", "success", Zero)
    /\ par = <<>> /\ platform = <<>> /\ plret = <<>>
    /\ tmp = DefaultProfile /\ pre = DefaultProfile
    /\ ret = Call("construct", Zero, Zero, Zero, "success", DefaultResult)
    /\ ctor = <<Zero, Zero>>
    /\ started = FALSE /\ startOk = FALSE /\ ended = FALSE
    /\ gyro = <<>> /\ gpre = <<>> /\ gret = <<>> /\ gsteps = 0

SetStep(r, op, speed) ==
    /\ drive' = r.c
    /\ dret' = ControllerCall(op, speed, dret.op, r.err, Zero)
    /\ UNCHANGED <<tmpVars, gyroVars, platVars>>

SetSpeed ==
    \E speed \in Speeds, e \in RawOutcomes :
        /\ drive # <<>>
        /\ SetStep(setSpeed(drive, speed, e), "setSpeed", speed)

SetSpeedInRange ==
    \E speed \in Speeds, range \in CustomRanges, e \in RawOutcomes :
        /\ drive # <<>>
        /\ SetStep(setSpeedInRange(drive, speed, range, e), "setSpeedInRange", speed)

GetStep(r) ==
    /\ dret' = ControllerCall("getSpeed", dret.speed,
                               IF dret.err = "success" THEN dret.op ELSE "failed",
                               r.err, r.value)
    /\ UNCHANGED <<drive, tmpVars, gyroVars, platVars>>

GetSpeed ==
    \E e \in RawOutcomes :
        /\ drive # <<>>
        /\ GetStep(getSpeed(drive, e))

NextController ==
    \/ SetSpeed
    \/ SetSpeedInRange
    \/ GetSpeed

SpecController == InitController /\ [][NextController]_vars

\* getSpeed() answered right after a successful setSpeed(dret.speed)
GotAfterSet ==
    /\ dret.op = "getSpeed" /\ dret.err = "success"
    /\ dret.prev = "setSpeed"

\* C21: setSpeed(s) followed by getSpeed() returns s, for every s inside
\* interfaceSpeedRange, reversed or not, whatever the interface range.
C21_RoundTrip ==
    (GotAfterSet /\ inSpeedRange(drive, dret.speed)) => dret.value = dret.speed

(***************************************************************************)
(* The speed calculators: calculateMotorLinearSpeed,                       *)
(* calculateMotorSpeedLinearFromAngular and calculatePlatformSpeeds.       *)
(* Angles are whole degrees whose cosine is rational; wheel radii are      *)
(* positive.                                                               *)
(***************************************************************************)
\* configurations handed to the calculators have up to MaxWheels wheels,
\* besides the four-wheel platform
MaxWheels == 2

\* the angle a (whole degrees) brought into 0..359
Turn(a) == (a[1] \div a[2]) % 360
\* the cosine of the angle is rational: a multiple of 60 or of 90 degrees
HasCos(a) == a[2] = 1 /\ (Turn(a) % 60 = 0 \/ Turn(a) % 90 = 0)
\* core::cosDegrees(a)
cosDegrees(a) ==
    IF Turn(a) = 0 THEN One
    ELSE IF Turn(a) \in {60, 300} THEN Q(1, 2)
    ELSE IF Turn(a) \in {90, 270} THEN Zero
    ELSE IF Turn(a) \in {120, 240} THEN Q(-1, 2)
    ELSE Int2Q(-1)

\* the checks in the other order (differs from calculateMotorLinearSpeed)
calculateMotorLinearSpeed_RangeFirst(info, angle, speed) ==
    IF ~contains(info.interfaceSpeedRange, speed)
    THEN [err |-> "outOfRange", value |-> Zero]
    ELSE IF info.parallelAxisesAmount = 0
    THEN [err |-> "invalidArgument", value |-> Zero]
    ELSE [err |-> "success",
          value |-> Div(Div(Mul(cosDegrees(Sub(angle, info.anglePos)), speed),
                            Int2Q(info.parallelAxisesAmount)), info.wheelR)]

\* the speed not shared among the parallel wheels (differs from
\* calculateMotorLinearSpeed)
calculateMotorLinearSpeed_Undivided(info, angle, speed) ==
    IF info.parallelAxisesAmount = 0
    THEN [err |-> "invalidArgument", value |-> Zero]
    ELSE IF ~contains(info.interfaceSpeedRange, speed)
    THEN [err |-> "outOfRange", value |-> Zero]
    ELSE [err |-> "success",
          value |-> Div(Mul(cosDegrees(Sub(angle, info.anglePos)), speed), info.wheelR)]

\* calculators::calculateMotorLinearSpeed(info, angle, speed)
calculateMotorLinearSpeed(info, angle, speed) ==
    IF info.parallelAxisesAmount = 0
    THEN [err |-> "invalidArgument", value |-> Zero]
    ELSE IF ~contains(info.interfaceSpeedRange, speed)
    THEN [err |-> "outOfRange", value |-> Zero]
    ELSE [err |-> "success",
          value |-> Div(Div(Mul(cosDegrees(Sub(angle, info.anglePos)), speed),
                            Int2Q(info.parallelAxisesAmount)), info.wheelR)]

\* calculators::calculateMotorSpeedLinearFromAngular(info, angularSpeed)
calculateMotorSpeedLinearFromAngular(info, angularSpeed) ==
    Div(Mul(angularSpeed, info.distance), IF info.wheelR # Zero THEN info.wheelR ELSE One)

RECURSIVE platformSpeedsFrom_SkipFailed(_, _, _, _, _, _)
\* a loop that leaves a failing wheel at speed 0 and goes on (differs from
\* platformSpeedsFrom)
platformSpeedsFrom_SkipFailed(i, config, angle, speed, angularSpeed, speeds) ==
    IF i > Len(config) THEN [err |-> "success", speeds |-> speeds]
    ELSE platformSpeedsFrom_SkipFailed(i + 1, config, angle, speed, angularSpeed,
             Append(speeds,
                    IF calculateMotorLinearSpeed(config[i], angle, speed).err # "success"
                    THEN Zero
                    ELSE Add(calculateMotorLinearSpeed(config[i], angle, speed).value,
                             calculateMotorSpeedLinearFromAngular(config[i], angularSpeed))))

RECURSIVE platformSpeedsFrom(_, _, _, _, _, _)
\* the loop of calculatePlatformSpeeds from wheel i on; speed is speed * speedK
platformSpeedsFrom(i, config, angle, speed, angularSpeed, speeds) ==
    IF i > Len(config) THEN [err |-> "success", speeds |-> speeds]
    ELSE IF calculateMotorLinearSpeed(config[i], angle, speed).err # "success"
    THEN [err |-> calculateMotorLinearSpeed(config[i], angle, speed).err, speeds |-> <<>>]
    ELSE platformSpeedsFrom(i + 1, config, angle, speed, angularSpeed,
             Append(speeds,
                    Add(calculateMotorLinearSpeed(config[i], angle, speed).value,
                        calculateMotorSpeedLinearFromAngular(config[i], angularSpeed))))

\* calculators::calculatePlatformSpeeds(config, angle, speed, speedK, angularSpeed)
calculatePlatformSpeeds(config, angle, speed, speedK, angularSpeed) ==
    platformSpeedsFrom(1, config, angle, Mul(speed, speedK), angularSpeed, <<>>)

\* the motors of the configurations: mount angle, (distance, wheelR),
\* interface range, parallelAxisesAmount as found in the MotorInfo
CalcMotors ==
    {[MotorInfoOf(a, g[1], g[2], <<Int2Q(-255), Int2Q(255)>>, ir, FALSE)
        EXCEPT !.parallelAxisesAmount = n] :
        a \in {Zero, Int2Q(120)}, g \in {<<One, One>>, <<Int2Q(3), Two>>},
        ir \in {<<Int2Q(-10), Int2Q(10)>>, <<Zero, Int2Q(5)>>}, n \in {0, 1}}
\* the four-wheel platform: mounts 90 degrees apart, wheelR = 1, distance = 1
FourWheels ==
    [i \in 1..4 |-> MotorInfoOf(Int2Q(90 * (i - 1)), One, One,
                                <<Int2Q(-255), Int2Q(255)>>,
                                <<Int2Q(-10), Int2Q(10)>>, FALSE)]
CalcConfigs == {FourWheels} \cup UNION {[1..n -> CalcMotors] : n \in 0..MaxWheels}
TravelAngles == {Zero, Int2Q(60), Int2Q(180)}
CalcSpeeds == {Int2Q(10), Int2Q(3), Int2Q(-11)}
SpeedKs == {One, Q(1, 2)}
AngularSpeeds == {Zero, One}

\* every wheel's cosine is rational at this travel angle
Representable(config, angle) ==
    \A i \in 1..Len(config) : HasCos(Sub(angle, config[i].anglePos))

CalcCall(op, i, angle, speed, speedK, angularSpeed, err, value, speeds) ==
    [op |-> op, i |-> i, angle |-> angle, speed |-> speed, speedK |-> speedK,
     angularSpeed |-> angularSpeed, err |-> err, value |-> value, speeds |-> speeds]

InitCalc ==
    /\ drive \in {[config |-> c, grouped |-> FALSE] : c \in CalcConfigs}
    /\ dret = CalcCall("construct", 0, Zero, Zero, One, Zero, "success", Zero, <<>>)
    /\ par = <<>> /\ platform = <<>> /\ plret = <<>>
    /\ tmp = DefaultProfile /\ pre = DefaultProfile
    /\ ret = Call("construct", Zero, Zero, Zero, "success", DefaultResult)
    /\ ctor = <<Zero, Zero>>
    /\ started = FALSE /\ startOk = FALSE /\ ended = FALSE
    /\ gyro = <<>> /\ gpre = <<>> /\ gret = <<>> /\ gsteps = 0

\* a calculator was applied to the configuration
Calculated == dret.op \in {"calculateMotorLinearSpeed", "calculatePlatformSpeeds"}

\* the configuration is grouped at precision 0, as the Platform constructor does
GroupMotors ==
    /\ ~drive.grouped /\ ~Calculated
    /\ drive' = [config |-> updateParallelAxisesForMotors(drive.config, 0),
                 grouped |-> TRUE]
    /\ dret' = CalcCall("group", 0, Zero, Zero, One, Zero, "success", Zero, <<>>)
    /\ UNCHANGED <<tmpVars, gyroVars, platVars>>

MotorStep(r, i, angle, speed) ==
    /\ dret' = CalcCall("calculateMotorLinearSpeed", i, angle, speed, One, Zero,
                        r.err, r.value, <<>>)
    /\ UNCHANGED <<drive, tmpVars, gyroVars, platVars>>

CalculateMotorLinearSpeed ==
    \E i \in 1..Len(drive.config), angle \in TravelAngles, speed \in CalcSpeeds :
        /\ ~Calculated
        /\ HasCos(Sub(angle, drive.config[i].anglePos))
        /\ MotorStep(calculateMotorLinearSpeed(drive.config[i], angle, speed),
                     i, angle, speed)

SpeedsStep(r, angle, speed, speedK, angularSpeed) ==
    /\ dret' = CalcCall("calculatePlatformSpeeds", 0, angle, speed, speedK,
                        angularSpeed, r.err, Zero, r.speeds)
    /\ UNCHANGED <<drive, tmpVars, gyroVars, platVars>>

CalculatePlatformSpeeds ==
    \E angle \in TravelAngles, speed \in CalcSpeeds, speedK \in SpeedKs,
       angularSpeed \in AngularSpeeds :
        /\ ~Calculated
        /\ Representable(drive.config, angle)
        /\ SpeedsStep(calculatePlatformSpeeds(drive.config, angle, speed, speedK,
                                              angularSpeed),
                      angle, speed, speedK, angularSpeed)

NextCalc ==
    \/ GroupMotors
    \/ CalculateMotorLinearSpeed
    \/ CalculatePlatformSpeeds

SpecCalc == InitCalc /\ [][NextCalc]_vars

\* the motor of the last calculateMotorLinearSpeed
IsMotorCalc == dret.op = "calculateMotorLinearSpeed"
CalcMotor == drive.config[dret.i]

\* C22: calculateMotorLinearSpeed returns invalidArgument when
\* parallelAxisesAmount is 0, whatever the speed; otherwise outOfRange for a
\* speed outside interfaceSpeedRange; otherwise it succeeds with
\* cos(travelAngle - anglePos) * speed / parallelAxisesAmount / wheelR.
C22_MotorLinearSpeed ==
    IsMotorCalc =>
        IF CalcMotor.parallelAxisesAmount = 0 THEN dret.err = "invalidArgument"
        ELSE IF Lt(dret.speed, CalcMotor.interfaceSpeedRange[1])
                \/ Lt(CalcMotor.interfaceSpeedRange[2], dret.speed)
        THEN dret.err = "outOfRange"
        ELSE /\ dret.err = "success"
             /\ Mul(Mul(dret.value, CalcMotor.wheelR),
                    Int2Q(CalcMotor.parallelAxisesAmount))
                    = Mul(cosDegrees(Sub(dret.angle, CalcMotor.anglePos)), dret.speed)

\* a motor with parallelAxisesAmount 0 is asked for a speed outside its range
C22_Witness ==
    /\ IsMotorCalc
    /\ CalcMotor.parallelAxisesAmount = 0
    /\ ~contains(CalcMotor.interfaceSpeedRange, dret.speed)
    /\ dret.err = "invalidArgument"

\* a wheel of radius 2 mounted at 120 degrees gets a share of the speed
C22_WitnessValue ==
    /\ IsMotorCalc /\ dret.err = "success"
    /\ CalcMotor.wheelR = Two /\ CalcMotor.anglePos = Int2Q(120)
    /\ dret.value = Q(-3, 4)

\* the last call was calculatePlatformSpeeds
IsSpeedsCalc == dret.op = "calculatePlatformSpeeds"
Wheels == 1..Len(drive.config)
\* the speed the wheels are evaluated with
Scaled == Mul(dret.speed, dret.speedK)
\* the error calculateMotorLinearSpeed owes wheel i at the scaled speed
WheelError(i) ==
    IF drive.config[i].parallelAxisesAmount = 0 THEN "invalidArgument"
    ELSE IF Lt(Scaled, drive.config[i].interfaceSpeedRange[1])
            \/ Lt(drive.config[i].interfaceSpeedRange[2], Scaled)
    THEN "outOfRange" ELSE "success"
FailingWheels == {i \in Wheels : WheelError(i) # "success"}

\* C23: calculatePlatformSpeeds fails fast with the error of the failing
\* wheel of the lowest index (wheels evaluated with speed * speedK) and no
\* speeds; otherwise it returns one entry for each wheel, entry i being the
\* linear contribution of wheel i plus angularSpeed * distance_i / wheelR_i.
C23_PlatformSpeeds ==
    IsSpeedsCalc =>
        IF FailingWheels # {}
        THEN /\ dret.err = WheelError(CHOOSE i \in FailingWheels :
                                          \A j \in FailingWheels : i <= j)
             /\ dret.speeds = <<>>
        ELSE /\ dret.err = "success"
             /\ Len(dret.speeds) = Len(drive.config)
             /\ \A i \in Wheels :
                    Mul(Mul(dret.speeds[i], drive.config[i].wheelR),
                        Int2Q(drive.config[i].parallelAxisesAmount))
                    = Add(Mul(cosDegrees(Sub(dret.angle, drive.config[i].anglePos)), Scaled),
                          Mul(Mul(dret.angularSpeed, drive.config[i].distance),
                              Int2Q(drive.config[i].parallelAxisesAmount)))

\* two wheels fail with different errors and the error of the first is returned
C23_Witness ==
    /\ IsSpeedsCalc
    /\ Len(drive.config) = 2
    /\ WheelError(1) = "outOfRange" /\ WheelError(2) = "invalidArgument"
    /\ dret.err = "outOfRange"

\* the first wheel succeeds, a later one fails, and no speed is returned
C23_WitnessLater ==
    /\ IsSpeedsCalc
    /\ Len(drive.config) = 2
    /\ WheelError(1) = "success" /\ WheelError(2) # "success"
    /\ dret.err = WheelError(2) /\ dret.speeds = <<>>

\* two wheels turn the platform while it travels at half the speed
C23_WitnessSum ==
    /\ IsSpeedsCalc /\ dret.err = "success"
    /\ Len(dret.speeds) = 2
    /\ dret.angularSpeed = One /\ dret.speedK = Q(1, 2)
    /\ drive.config[2].distance = Int2Q(3)
    /\ dret.speeds[1] # dret.speeds[2]

\* the four-wheel platform, grouped, asked for speed 10 at travel angle 0
IsFourWheelCase ==
    /\ IsSpeedsCalc
    /\ drive.grouped
    /\ Len(drive.config) = 4
    /\ \A i \in 1..4 : /\ drive.config[i].anglePos = Int2Q(90 * (i - 1))
                       /\ drive.config[i].wheelR = One
                       /\ drive.config[i].distance = One
                       /\ contains(drive.config[i].interfaceSpeedRange, Int2Q(10))
    /\ dret.angle = Zero /\ dret.speed = Int2Q(10)
    /\ dret.speedK = One /\ dret.angularSpeed = Zero

\* C24: the four-wheel platform with mounts 0/90/180/270, wheelR = 1,
\* distance = 1, grouped at precision 0, asked for travelAngle 0, speed 10,
\* speedK 1, angularSpeed 0 gets 5 for the wheel at 0, -5 for the wheel at 180
\* and 0 for the wheels at 90 and 270.
C24_FourWheels ==
    IsFourWheelCase =>
        /\ dret.err = "success"
        /\ dret.speeds = <<Int2Q(5), Zero, Int2Q(-5), Zero>>

\* the four-wheel case was calculated
C24_Witness ==
    /\ IsFourWheelCase
    /\ dret.err = "success"
    /\ drive.config[1].parallelAxisesAmount = 2
    /\ dret.speeds[1] = Int2Q(5)

(***************************************************************************)
(* Part 5: the claims about Platform::init, and the gyro platform          *)
(* (src/unnamed/part_000).                                                 *)
(***************************************************************************)
\* the last call was init
IsPlatformInit == plret.op = "init"
\* the controllers at which init(ports) has to fail
InitFailing ==
    {i \in Controllers : \/ ~plret.valid[i]
                         \/ i > Len(plret.ports)
                         \/ plret.outcome[i] # "success"}
FirstInitFailing == CHOOSE i \in InitFailing : \A j \in InitFailing : i <= j

\* C25: init(ports) initialises the controllers in index order, each with
\* its paired port, and stops at the first failure: initFailed for an
\* invalid controller or a failing init, invalidArgument for a missing port;
\* no controller after the failing index is initialised, and success means
\* every controller was initialised with its paired port.
C25_InitFailFast ==
    IsPlatformInit =>
        IF InitFailing = {}
        THEN /\ plret.err.errcode = "success"
             /\ plret.calls = [i \in Controllers |-> <<i, plret.ports[i]>>]
        ELSE /\ plret.err.errcode =
                    IF ~plret.valid[FirstInitFailing] THEN "initFailed"
                    ELSE IF FirstInitFailing > Len(plret.ports) THEN "invalidArgument"
                    ELSE "initFailed"
             /\ plret.err.msg[1][1] = FirstInitFailing
             /\ \A k \in 1..Len(plret.calls) :
                    /\ plret.calls[k] = <<k, plret.ports[k]>>
                    /\ k <= FirstInitFailing
             /\ Len(plret.calls) >= FirstInitFailing - 1

\* the first controller is initialised, the second misses its port, and the
\* third is left alone although its init would succeed
C25_Witness ==
    /\ IsPlatformInit
    /\ Len(platform.controllers) = MaxMotors
    /\ Len(plret.ports) = 1
    /\ \A i \in Controllers : plret.valid[i] /\ plret.outcome[i] = "success"
    /\ plret.err.errcode = "invalidArgument"
    /\ plret.calls = <<<<1, 19>>>>

\* the init of the first controller fails and no other controller is touched
C25_WitnessInit ==
    /\ IsPlatformInit
    /\ Len(platform.controllers) > 1
    /\ Len(plret.ports) = Len(platform.controllers)
    /\ \A i \in Controllers : plret.valid[i]
    /\ plret.outcome[1] # "success"
    /\ plret.err.errcode = "initFailed"
    /\ Len(plret.calls) = 1

(***************************************************************************)
(* GyroPlatform: a Platform with a yaw getter, a time getter, a speed      *)
(* calculator and a head angle.  What the yaw getter, the calculator and   *)
(* the controllers answer in one call of go is the environment of the call.*)
(***************************************************************************)
\* GyroPlatform(calculator, yawGetter, timeGetter, configuration, parallelismPrecision)
GyroPlatform(configuration, parallelismPrecision) ==
    [controllers |-> Platform(configuration, parallelismPrecision).controllers,
     headAngle |-> Zero]

\* GyroPlatform::setHead(angle) and getHead()
setHead(p, angle) == [p EXCEPT !.headAngle = angle]
getHead(p) == p.headAngle

\* the arguments go hands to calculator.calculateSpeeds
calculatorArgs(p, time, yaw, speed, angle, isAngleRelative, angularSpeed, speedK) ==
    <<time, IF isAngleRelative THEN Sub(yaw, angle) ELSE angle, yaw, p.headAngle,
      speed, speedK, angularSpeed>>

\* an end of go that stops the wheels when the calculator fails
\* (differs from actuate)
actuate_Anyway(p, asked, calc, outcome) ==
    IF calc.err # "success"
    THEN [err |-> [errcode |-> calc.err, msg |-> <<>>],
          calls |-> setSpeeds(p, [i \in 1..Len(p.controllers) |-> Zero], outcome).calls,
          asked |-> asked, p |-> p]
    ELSE [err |-> setSpeeds(p, calc.speeds, outcome).err,
          calls |-> setSpeeds(p, calc.speeds, outcome).calls,
          asked |-> asked, p |-> p]

\* the end of go: the calculator has answered calc for the arguments asked
actuate(p, asked, calc, outcome) ==
    IF calc.err # "success"
    THEN [err |-> [errcode |-> calc.err, msg |-> <<>>], calls |-> <<>>,
          asked |-> asked, p |-> p]
    ELSE [err |-> setSpeeds(p, calc.speeds, outcome).err,
          calls |-> setSpeeds(p, calc.speeds, outcome).calls,
          asked |-> asked, p |-> p]

\* the head angle after the yaw was read
synced(p, angle, enableHeadSync) == IF enableHeadSync THEN setHead(p, angle) ELSE p

\* GyroPlatform::go(speed, angle, isAngleRelative, enableHeadSync, angularSpeed, speedK)
go(p, time, yaw, calc, outcome, speed, angle, isAngleRelative, enableHeadSync, angularSpeed, speedK) ==
    IF yaw.err # "success"
    THEN [err |-> [errcode |-> yaw.err, msg |-> <<>>], calls |-> <<>>,
          asked |-> <<>>, p |-> p]
    ELSE actuate(synced(p, angle, enableHeadSync),
                 calculatorArgs(synced(p, angle, enableHeadSync), time, yaw.value,
                                speed, angle, isAngleRelative, angularSpeed, speedK),
                 calc, outcome)

\* what the yaw getter answers
YawOutcomes ==
    {[err |-> "sensorError", value |-> Zero]}
        \cup {[err |-> "success", value |-> a] : a \in {Int2Q(60)}}
\* what the calculator answers: an error, or speeds for n wheels or for one less
CalcOutcomes(n) ==
    {[err |-> "outOfRange", speeds |-> <<>>]}
        \cup {[err |-> "success", speeds |-> [i \in 1..k |-> Int2Q(i)]] : k \in {n - 1, n}}
\* what the controllers answer in one call of go
GoOutcomes(n) == [1..n -> {"success", "outOfRange"}]
GoAngles == {Zero, Int2Q(90)}

GoCall(op, yaw, calc, outcome, angle, isAngleRelative, enableHeadSync, r) ==
    [op |-> op, yaw |-> yaw, calc |-> calc, outcome |-> outcome, angle |-> angle,
     isAngleRelative |-> isAngleRelative, enableHeadSync |-> enableHeadSync,
     err |-> r.err, calls |-> r.calls, asked |-> r.asked]

InitGyroPlatform ==
    /\ drive \in {GyroPlatform(WheelConfig(n), 0) : n \in 1..MaxWheels}
    /\ dret = GoCall("construct", [err |-> "success", value |-> Zero],
                     [err |-> "success", speeds |-> <<>>], <<>>, Zero, FALSE, FALSE,
                     [err |-> NoError, calls |-> <<>>, asked |-> <<>>])
    /\ par = <<>> /\ platform = <<>> /\ plret = <<>>
    /\ tmp = DefaultProfile /\ pre = DefaultProfile
    /\ ret = Call("construct", Zero, Zero, Zero, "success", DefaultResult)
    /\ ctor = <<Zero, Zero>>
    /\ started = FALSE /\ startOk = FALSE /\ ended = FALSE
    /\ gyro = <<>> /\ gpre = <<>> /\ gret = <<>> /\ gsteps = 0

GoStep(r, yaw, calc, outcome, angle, isAngleRelative, enableHeadSync) ==
    /\ drive' = r.p
    /\ dret' = GoCall("go", yaw, calc, outcome, angle, isAngleRelative,
                      enableHeadSync, r)
    /\ UNCHANGED <<tmpVars, gyroVars, platVars>>

Go ==
    \E yaw \in YawOutcomes, calc \in CalcOutcomes(Len(drive.controllers)),
       outcome \in GoOutcomes(Len(drive.controllers)), angle \in GoAngles,
       isAngleRelative \in BOOLEAN, enableHeadSync \in BOOLEAN :
        /\ drive # <<>>
        /\ GoStep(go(drive, Int2Q(1), yaw, calc, outcome, Int2Q(3), angle,
                     isAngleRelative, enableHeadSync, Zero, One),
                  yaw, calc, outcome, angle, isAngleRelative, enableHeadSync)

SetHead ==
    \E angle \in GoAngles :
        /\ drive # <<>>
        /\ drive' = setHead(drive, angle)
        /\ dret' = GoCall("setHead", [err |-> "success", value |-> Zero],
                          [err |-> "success", speeds |-> <<>>], <<>>, angle, FALSE,
                          FALSE, [err |-> NoError, calls |-> <<>>, asked |-> <<>>])
        /\ UNCHANGED <<tmpVars, gyroVars, platVars>>

NextGyroPlatform ==
    \/ Go
    \/ SetHead

SpecGyroPlatform == InitGyroPlatform /\ [][NextGyroPlatform]_vars

\* the last call was go
IsGo == dret.op = "go"

\* C26: go returns the error of a failing yaw read, or else the error of a
\* failing speed calculation, and in both cases no controller's setSpeed is
\* called; controllers are called only after both stages succeeded.
C26_NoActuationAfterFailure ==
    IsGo =>
        /\ dret.yaw.err # "success" =>
               dret.err.errcode = dret.yaw.err /\ dret.calls = <<>>
        /\ (dret.yaw.err = "success" /\ dret.calc.err # "success") =>
               dret.err.errcode = dret.calc.err /\ dret.calls = <<>>
        /\ dret.calls # <<>> =>
               dret.yaw.err = "success" /\ dret.calc.err = "success"

\* the yaw is read, the calculation fails, and the controllers, all of
\* which would have accepted a speed, are left alone
C26_Witness ==
    /\ IsGo
    /\ dret.yaw.err = "success" /\ dret.calc.err = "outOfRange"
    /\ \A i \in 1..Len(drive.controllers) : dret.outcome[i] = "success"
    /\ dret.err.errcode = "outOfRange"
    /\ dret.calls = <<>>

\* the yaw read fails
C26_WitnessYaw ==
    /\ IsGo
    /\ dret.yaw.err = "sensorError" /\ dret.calc.err = "success"
    /\ dret.err.errcode = "sensorError"

\* both stages succeed and every controller gets its speed
C26_WitnessActuated ==
    /\ IsGo
    /\ dret.err.errcode = "success"
    /\ Len(dret.calls) = MaxWheels

(***************************************************************************)
(* GyroPidCalculator (src/include/gyro.hpp) over a PIDRegulator            *)
(* (src/unnamed/part_000).  Times are exact rationals.                     *)
(***************************************************************************)
\* calls of calculateSpeeds on one calculator
MaxPidSteps == 2

\* PIDRegulator(Kp, Ki, Kd, Target): the member target is initialised from
\* itself, so it holds whatever value the object's storage had
PIDRegulator(Kp, Ki, Kd, indeterminate) ==
    [Kp |-> Kp, Ki |-> Ki, Kd |-> Kd, errold |-> Zero, integral |-> Zero,
     target |-> indeterminate, prevTime |-> Zero]

\* the first call of compute: the time and the error are kept, Kp * error returned
computeFirst(pid, error, time) ==
    [out |-> Mul(pid.Kp, error),
     pid |-> [pid EXCEPT !.prevTime = time, !.errold = error]]

\* a later call of compute, timeStep after the one before
computeNext(pid, error, time, timeStep) ==
    [out |-> Add(Add(Mul(pid.Kp, error),
                     Mul(pid.Ki, Add(pid.integral, Mul(error, timeStep)))),
                 Mul(pid.Kd, IF Lt(Zero, timeStep)
                             THEN Div(Sub(error, pid.errold), timeStep) ELSE Zero)),
     pid |-> [pid EXCEPT !.integral = Add(pid.integral, Mul(error, timeStep)),
                         !.errold = error, !.prevTime = time]]

\* PIDRegulator::compute(measured, target, time)
computeTo(pid, measured, target, time) ==
    IF pid.prevTime = Zero
    THEN computeFirst(pid, Sub(target, measured), time)
    ELSE computeNext(pid, Sub(target, measured), time, Sub(time, pid.prevTime))

\* PIDRegulator::compute(measured, time)
compute(pid, measured, time) == computeTo(pid, measured, pid.target, time)

\* PIDRegulator::setTarget(target) and getTarget()
setTarget(pid, target) == [pid EXCEPT !.target = target]
getTarget(pid) == pid.target

\* GyroPidCalculator(pid, getter)
GyroPidCalculator(pid) == [pid |-> pid, calls |-> 0]

\* the end of calculateSpeeds: the yaw was read as angle and the regulator
\* has answered cmp
delegate(c, cmp, config, angle, speed, speedK, angularSpeed) ==
    [err |-> calculatePlatformSpeeds(config, angle, speed, speedK,
                                     Add(angularSpeed, cmp.out)).err,
     speeds |-> calculatePlatformSpeeds(config, angle, speed, speedK,
                                        Add(angularSpeed, cmp.out)).speeds,
     correction |-> cmp.out,
     c |-> [c EXCEPT !.pid = cmp.pid]]

\* GyroPidCalculator::calculateSpeeds(time, config, speed, speedK, angularSpeed);
\* yaw is what getter->getYaw() answers
calculateSpeeds(c, yaw, time, config, speed, speedK, angularSpeed) ==
    IF yaw.err # "success"
    THEN [err |-> yaw.err, speeds |-> <<>>, correction |-> Zero, c |-> c]
    ELSE delegate(c, compute(c.pid, yaw.value, time), config, yaw.value, speed,
                  speedK, angularSpeed)

\* the regulators: gains, and the value target happens to hold
Regulators ==
    {PIDRegulator(One, k, k, t) : k \in {Zero, One}, t \in {Zero, Int2Q(60)}}
\* the configurations: wheels 120 degrees apart
PidConfigs ==
    {[i \in 1..n |-> MotorInfoOf(Int2Q(120 * (i - 1)), One, One,
                                 <<Int2Q(-255), Int2Q(255)>>,
                                 <<Int2Q(-10), Int2Q(10)>>, FALSE)] : n \in 1..MaxWheels}
PidTimes == {Int2Q(1), Int2Q(2)}
PidSpeeds == {Int2Q(10), Int2Q(-11)}
\* the travel angle the caller means the platform to take
PidTravels == {Zero, Int2Q(60)}
PidYaws ==
    {[err |-> "sensorError", value |-> Zero]}
        \cup {[err |-> "success", value |-> a] : a \in {Zero, Int2Q(60)}}

PidCall(op, yaw, time, config, travel, speed, speedK, angularSpeed, r) ==
    [op |-> op, yaw |-> yaw, time |-> time, config |-> config, travel |-> travel,
     speed |-> speed, speedK |-> speedK, angularSpeed |-> angularSpeed,
     err |-> r.err, speeds |-> r.speeds, correction |-> r.correction]

InitPidCalc ==
    /\ drive \in {GyroPidCalculator(pid) : pid \in Regulators}
    /\ dret = PidCall("construct", [err |-> "success", value |-> Zero], Zero, <<>>,
                      Zero, Zero, One, Zero,
                      [err |-> "success", speeds |-> <<>>, correction |-> Zero])
    /\ par = <<>> /\ platform = <<>> /\ plret = <<>>
    /\ tmp = DefaultProfile /\ pre = DefaultProfile
    /\ ret = Call("construct", Zero, Zero, Zero, "success", DefaultResult)
    /\ ctor = <<Zero, Zero>>
    /\ started = FALSE /\ startOk = FALSE /\ ended = FALSE
    /\ gyro = <<>> /\ gpre = <<>> /\ gret = <<>> /\ gsteps = 0

PidStep(r, yaw, time, config, travel, speed, speedK, angularSpeed) ==
    /\ drive' = [r.c EXCEPT !.calls = @ + 1]
    /\ dret' = PidCall("calculateSpeeds", yaw, time, config, travel, speed, speedK,
                       angularSpeed, r)
    /\ UNCHANGED <<tmpVars, gyroVars, platVars>>

CalculateSpeeds ==
    \E yaw \in PidYaws, time \in PidTimes, config \in PidConfigs,
       travel \in PidTravels, speed \in PidSpeeds :
        /\ drive.calls < MaxPidSteps
        /\ PidStep(calculateSpeeds(drive, yaw, time, config, speed, One, One),
                   yaw, time, config, travel, speed, One, One)

NextPidCalc == CalculateSpeeds

SpecPidCalc == InitPidCalc /\ [][NextPidCalc]_vars

\* the last call was calculateSpeeds
IsPidCalc == dret.op = "calculateSpeeds"

\* C27: calculateSpeeds returns the error of a failing yaw read; otherwise
\* its result is calculatePlatformSpeeds at the caller's travel angle and
\* speed, with the caller's angularSpeed plus the PID correction as the
\* angular speed; the measured yaw enters the correction only.
C27_TravelAngle ==
    IsPidCalc =>
        IF dret.yaw.err # "success" THEN dret.err = dret.yaw.err
        ELSE /\ dret.err = calculatePlatformSpeeds(dret.config, dret.travel, dret.speed,
                               dret.speedK,
                               Add(dret.angularSpeed, dret.correction)).err
             /\ dret.speeds = calculatePlatformSpeeds(dret.config, dret.travel, dret.speed,
                                  dret.speedK,
                                  Add(dret.angularSpeed, dret.correction)).speeds

(***************************************************************************)
(* PIDRegulator on its own (src/unnamed/part_000): calls of compute at     *)
(* times that never go back.  TimeType is size_t, so the times are         *)
(* naturals and the earliest one is 0.                                     *)
(***************************************************************************)
\* calls of compute on one regulator
MaxComputes == 3
\* the latest time of a call
MaxPidTime == 2

PidMeasured == {Zero, One}
PidTargets == {One, Two}

ComputeCall(op, measured, target, time, out, before, n) ==
    [op |-> op, measured |-> measured, target |-> target, time |-> time,
     out |-> out, before |-> before, n |-> n]

InitPid ==
    /\ drive \in {[pid |-> pid, calls |-> 0, last |-> 0] : pid \in Regulators}
    /\ dret = ComputeCall("construct", Zero, Zero, Zero, Zero, <<>>, 0)
    /\ par = <<>> /\ platform = <<>> /\ plret = <<>>
    /\ tmp = DefaultProfile /\ pre = DefaultProfile
    /\ ret = Call("construct", Zero, Zero, Zero, "success", DefaultResult)
    /\ ctor = <<Zero, Zero>>
    /\ started = FALSE /\ startOk = FALSE /\ ended = FALSE
    /\ gyro = <<>> /\ gpre = <<>> /\ gret = <<>> /\ gsteps = 0

ComputeStep(r, measured, target, t) ==
    /\ drive' = [pid |-> r.pid, calls |-> drive.calls + 1, last |-> t]
    /\ dret' = ComputeCall("compute", measured, target, Int2Q(t), r.out, drive.pid,
                           drive.calls + 1)
    /\ UNCHANGED <<tmpVars, gyroVars, platVars>>

\* compute(measured, target, time)
Compute ==
    \E measured \in PidMeasured, target \in PidTargets, t \in 0..MaxPidTime :
        /\ drive.calls < MaxComputes
        /\ drive.last <= t
        /\ ComputeStep(computeTo(drive.pid, measured, target, Int2Q(t)),
                       measured, target, t)

\* compute(measured, time): the stored target
ComputeStored ==
    \E measured \in PidMeasured, t \in 0..MaxPidTime :
        /\ drive.calls < MaxComputes
        /\ drive.last <= t
        /\ ComputeStep(compute(drive.pid, measured, Int2Q(t)),
                       measured, getTarget(drive.pid), t)

NextPid == Compute \/ ComputeStored

SpecPid == InitPid /\ [][NextPid]_vars

\* the last call was compute
IsCompute == dret.op = "compute"

\* what an initialising call leaves and returns
InitialisingCall(b, a, error, time, out) ==
    /\ out = Mul(b.Kp, error)
    /\ a = [b EXCEPT !.errold = error, !.prevTime = time]

\* what a later call leaves and returns
LaterCall(b, a, error, time, out) ==
    /\ a = [b EXCEPT !.integral = Add(b.integral, Mul(error, Sub(time, b.prevTime))),
                     !.errold = error, !.prevTime = time]
    /\ out = Add(Add(Mul(b.Kp, error), Mul(b.Ki, a.integral)),
                 Mul(b.Kd, IF Lt(Zero, Sub(time, b.prevTime))
                           THEN Div(Sub(error, b.errold), Sub(time, b.prevTime))
                           ELSE Zero))

\* C31: in a sequence of compute calls at non-decreasing times exactly the
\* first call is an initialisation (returns Kp * error, records the error and
\* the time, leaves the integral); every later call adds error * (time -
\* previous time) to the integral, takes (error - previous error) / (time -
\* previous time) as the derivative, or 0 when the step is not positive,
\* returns Kp * error + Ki * integral + Kd * derivative and records the error
\* and the time.
C31_FirstCallOnly ==
    IsCompute =>
        IF dret.n = 1
        THEN InitialisingCall(dret.before, drive.pid, Sub(dret.target, dret.measured),
                              dret.time, dret.out)
        ELSE LaterCall(dret.before, drive.pid, Sub(dret.target, dret.measured),
                       dret.time, dret.out)

\* C32: when GyroPidCalculator::calculateSpeeds returns an error (the yaw
\* read failed, or a wheel's kinematics answered an error such as
\* outOfRange), the regulator's state (integral, previous error, previous
\* time) is what it was before the call.
C32_ErrorKeepsRegulator ==
    [][(dret'.op = "calculateSpeeds" /\ dret'.err # "success")
         => drive'.pid = drive.pid]_vars

(***************************************************************************)
(* CallbackTable over Callback objects (src/unnamed/part_000).  A Callback *)
(* holds a pointer to its implementation; the implementations here are     *)
(* CallbackSingle objects with the default executor and error handler.     *)
(* Ports are naturals.                                                     *)
(***************************************************************************)
\* the ports are 0..MaxPort
MaxPort == 1

TablePorts == 0..MaxPort

\* Callback(): implementation = nullptr, the pointer that holds nothing
NullCallback == [implementation |-> <<>>]

\* Callback(implementation): a copy of the implementation is held
Callback(implementation) == [implementation |-> <<implementation>>]

\* CallbackSingle(callback, initializer, attacher, checker): valid is what
\* callback.functor.isValid() answers, initializer and attacher are the
\* errors these two answer for this callback
CallbackSingle(port, valid, initializer, attacher) ==
    [port |-> port, valid |-> valid, initializer |-> initializer, attacher |-> attacher]

\* the callbacks a caller hands to the table
Callbacks ==
    {Callback(CallbackSingle(port, valid, a[1], a[2])) :
        port \in TablePorts, valid \in BOOLEAN,
        a \in {<<"success", "success">>, <<"initError", "success">>,
               <<"success", "attachError">>}}

\* CallbackTable(): no ports, no callbacks, not initialised; crashed marks a
\* program that has stopped in a fault
CallbackTable ==
    [initialized |-> FALSE, ports |-> <<>>, callbacks |-> <<>>, crashed |-> FALSE]

\* the largest port of a non-empty array
maxPort(ports) == CHOOSE m \in TablePorts :
    /\ \E i \in 1..Len(ports) : ports[i] = m
    /\ \A i \in 1..Len(ports) : ports[i] <= m

\* InitCallbackTable(ports, portInitializer); failAt is the index of the
\* first port portInitializer answers an error for, 0 when there is none
InitCallbackTable(t, ports, failAt) ==
    IF failAt # 0
    THEN [err |-> "portError", executed |-> <<>>, t |-> t]
    ELSE [err |-> "success", executed |-> <<>>,
          t |-> [t EXCEPT !.ports = ports,
                          !.callbacks = [p \in 0..maxPort(ports) |-> NullCallback],
                          !.initialized = TRUE]]

\* isCallbackPort(port)
isCallbackPort(t, port) ==
    t.initialized /\ \E i \in 1..Len(t.ports) : t.ports[i] = port

\* setCallback(callback): the slot is written before the callback is
\* initialised and attached
setCallback(t, callback) ==
    IF ~t.initialized
    THEN [err |-> "invalidConfiguration", executed |-> <<>>, t |-> t]
    ELSE IF ~isCallbackPort(t, callback.implementation[1].port)
    THEN [err |-> "invalidArgument", executed |-> <<>>, t |-> t]
    ELSE [err |-> IF callback.implementation[1].initializer # "success"
                  THEN callback.implementation[1].initializer
                  ELSE callback.implementation[1].attacher,
          executed |-> <<>>,
          t |-> [t EXCEPT !.callbacks[callback.implementation[1].port] = callback]]

\* a member called on a Callback whose implementation is nullptr is a call
\* through a null pointer: the program stops in a fault ("crash"), or goes
\* on with what it reads there: isValid() false ("invalid"), isValid() true
\* and check() false ("unchecked"), or both true and execute() run on
\* whatever is found ("wild")
NullOutcomes == {"crash", "invalid", "unchecked", "wild"}

\* CallbackSingle::execute() under the default executor and error handler;
\* checked is what the checker answers now
execute(callback, checked) ==
    IF ~checked THEN [err |-> "success", executed |-> <<>>]
    ELSE IF ~callback.implementation[1].valid
    THEN [err |-> "invalidResource", executed |-> <<>>]
    ELSE [err |-> "success", executed |-> <<callback>>]

\* manualProcess(port) on the slot of a registered port that holds a
\* Callback without implementation
processNull(t, ub) ==
    CASE ub = "crash" -> [err |-> "none", executed |-> <<>>, t |-> [t EXCEPT !.crashed = TRUE]]
      [] ub = "invalid" -> [err |-> "invalidConfiguration", executed |-> <<>>, t |-> t]
      [] ub = "unchecked" -> [err |-> "success", executed |-> <<>>, t |-> t]
      [] ub = "wild" -> [err |-> "none", executed |-> <<NullCallback>>,
                         t |-> [t EXCEPT !.crashed = TRUE]]

\* manualProcess(port); check is what check() answers and checked what the
\* checker answers inside execute(), ub what the call through a null
\* pointer does
manualProcess(t, port, check, checked, ub) ==
    IF ~t.initialized
    THEN [err |-> "invalidConfiguration", executed |-> <<>>, t |-> t]
    ELSE IF ~isCallbackPort(t, port)
    THEN [err |-> "invalidArgument", executed |-> <<>>, t |-> t]
    ELSE IF t.callbacks[port] = NullCallback THEN processNull(t, ub)
    ELSE IF ~t.callbacks[port].implementation[1].valid
    THEN [err |-> "invalidConfiguration", executed |-> <<>>, t |-> t]
    ELSE IF ~check THEN [err |-> "success", executed |-> <<>>, t |-> t]
    ELSE [err |-> execute(t.callbacks[port], checked).err,
          executed |-> execute(t.callbacks[port], checked).executed, t |-> t]

RECURSIVE processFrom(_, _, _, _, _, _)
\* the loop of manualProcess() from index i on; check and checked are the
\* sets of ports whose checker answers true in check() and in execute()
processFrom(i, t, check, checked, ub, executed) ==
    IF i > Len(t.ports) THEN [err |-> "success", executed |-> executed, t |-> t]
    ELSE IF t.callbacks[t.ports[i]] = NullCallback
    THEN CASE ub \in {"crash", "wild"} ->
                  [err |-> "none",
                   executed |-> IF ub = "wild" THEN Append(executed, NullCallback)
                                ELSE executed,
                   t |-> [t EXCEPT !.crashed = TRUE]]
           [] OTHER -> processFrom(i + 1, t, check, checked, ub, executed)
    ELSE IF ~t.callbacks[t.ports[i]].implementation[1].valid \/ t.ports[i] \notin check
    THEN processFrom(i + 1, t, check, checked, ub, executed)
    ELSE IF execute(t.callbacks[t.ports[i]], t.ports[i] \in checked).err # "success"
    THEN [err |-> execute(t.callbacks[t.ports[i]], t.ports[i] \in checked).err,
          executed |-> executed, t |-> t]
    ELSE processFrom(i + 1, t, check, checked, ub,
             executed \o execute(t.callbacks[t.ports[i]], t.ports[i] \in checked).executed)

\* manualProcess()
manualProcessAll(t, check, checked, ub) ==
    IF ~t.initialized
    THEN [err |-> "invalidConfiguration", executed |-> <<>>, t |-> t]
    ELSE processFrom(1, t, check, checked, ub, <<>>)

\* the port arrays: one port, or two different ones in either order
TablePortArrays ==
    {<<p>> : p \in TablePorts}
        \cup {a \in {<<p, q>> : p \in TablePorts, q \in TablePorts} : a[1] # a[2]}

TableCall(op, arg, r) ==
    [op |-> op, arg |-> arg, err |-> r.err, executed |-> r.executed]

InitTable ==
    /\ drive = CallbackTable
    /\ dret = TableCall("construct", <<>>, [err |-> "success", executed |-> <<>>])
    /\ par = <<>> /\ platform = <<>> /\ plret = <<>>
    /\ tmp = DefaultProfile /\ pre = DefaultProfile
    /\ ret = Call("construct", Zero, Zero, Zero, "success", DefaultResult)
    /\ ctor = <<Zero, Zero>>
    /\ started = FALSE /\ startOk = FALSE /\ ended = FALSE
    /\ gyro = <<>> /\ gpre = <<>> /\ gret = <<>> /\ gsteps = 0

TableStep(r, op, arg) ==
    /\ drive' = r.t
    /\ dret' = TableCall(op, arg, r)
    /\ UNCHANGED <<tmpVars, gyroVars, platVars>>

TableInit ==
    \E ports \in TablePortArrays : \E failAt \in 0..Len(ports) :
        /\ ~drive.crashed
        /\ TableStep(InitCallbackTable(drive, ports, failAt), "InitCallbackTable", ports)

SetCallback ==
    \E callback \in Callbacks :
        /\ ~drive.crashed
        /\ TableStep(setCallback(drive, callback), "setCallback", callback)

ManualProcess ==
    \E port \in TablePorts, check \in BOOLEAN, checked \in BOOLEAN, ub \in NullOutcomes :
        /\ ~drive.crashed
        /\ TableStep(manualProcess(drive, port, check, checked, ub), "manualProcess", port)

ManualProcessAll ==
    \E check \in SUBSET TablePorts, checked \in SUBSET TablePorts, ub \in NullOutcomes :
        /\ ~drive.crashed
        /\ TableStep(manualProcessAll(drive, check, checked, ub), "manualProcessAll", <<>>)

NextTable == TableInit \/ SetCallback \/ ManualProcess \/ ManualProcessAll

SpecTable == InitTable /\ [][NextTable]_vars

\* C33: on an initialised table, manualProcess(port) for a registered port
\* on which no callback was set returns invalidConfiguration, executes
\* nothing and leaves the program in a valid state.
C33_EmptySlotRejected ==
    [][(/\ dret'.op = "manualProcess"
        /\ isCallbackPort(drive, dret'.arg)
        /\ drive.callbacks[dret'.arg] = NullCallback)
         => /\ dret'.err = "invalidConfiguration"
            /\ dret'.executed = <<>>
            /\ ~drive'.crashed]_vars

\* the callback was taken by setCallback without an error
Accepted(callback) ==
    /\ callback.implementation # <<>>
    /\ callback.implementation[1].initializer = "success"
    /\ callback.implementation[1].attacher = "success"

\* C34: when setCallback returns an error (the table is not initialised,
\* the port is not a callback port, or the callback's initialize or attach
\* failed), the stored callbacks are what they were, and so manualProcess
\* never executes a callback that setCallback rejected.
C34_RejectedNotStored ==
    [][/\ (dret'.op = "setCallback" /\ dret'.err # "success")
            => drive'.callbacks = drive.callbacks
       /\ (dret'.op \in {"manualProcess", "manualProcessAll"} /\ ~drive'.crashed)
            => \A i \in 1..Len(dret'.executed) : Accepted(dret'.executed[i])]_vars

====
